---- MODULE Spec2Model ----
(***************************************************************************)
(* A model of the synchronous logic of nmigen-soc: the round-robin         *)
(* scheduler and the Wishbone arbiter built on it, the chunked CSR         *)
(* multiplexer, and the CSR register of the DSL with its write priorities. *)
(*                                                                         *)
(* Every component is clocked logic.  Its input signals are variables that *)
(* the environment drives between clock edges, one driver at a time; the   *)
(* action Tick of a component is one clock edge: it computes the registers *)
(* (m.d.sync) from the signals as they stand, and keeps in old_* what the  *)
(* registers held before the edge.  phase = "edge" marks a state reached   *)
(* by a clock edge, in which the input variables still hold the values     *)
(* sampled at that edge.  Combinational signals (m.d.comb) are recomputed  *)
(* by every action.  Where an input is sampled whole at the edge (the CSR  *)
(* bus operation of the multiplexer, the data inputs of the register) the  *)
(* clock edge itself draws the sampled value and records it.               *)
(***************************************************************************)
EXTENDS Naturals, Integers, FiniteSets, Sequences, TLC

\* Bounds of the model.
MaxRequests == 4
MaxItors == 2

VARIABLES
    phase,        \* "drive": inputs changed since the last edge; "edge": just clocked
    \* ---- scheduler.RoundRobin
    n,            \* RoundRobin.n, the number of requesters
    request,      \* RoundRobin.request, one bit per requester
    stb,          \* RoundRobin.stb
    grant,        \* RoundRobin.grant
    old_grant,    \* grant before the last clock edge
    \* ---- wishbone.bus.Arbiter (n is len(_itors), grant is the scheduler's)
    features,     \* the optional signals of Arbiter.bus
    itor_has_lock,\* per initiator: hasattr(itor_bus, "lock")
    itor_cyc,     \* per initiator: itor_bus.cyc
    itor_stb,     \* per initiator: itor_bus.stb
    itor_lock,    \* per initiator: itor_bus.lock
    bus_ack,      \* Arbiter.bus.ack, driven by the target
    bus_err,      \* Arbiter.bus.err
    bus_rty,      \* Arbiter.bus.rty
    bus_dat_r,    \* Arbiter.bus.dat_r
    bus_cyc,      \* Arbiter.bus.cyc, driven by the arbiter
    bus_stb,      \* Arbiter.bus.stb
    bus_lock,     \* Arbiter.bus.lock
    itor_ack,     \* per initiator: itor_bus.ack, driven by the arbiter
    itor_err,     \* per initiator: itor_bus.err
    itor_rty,     \* per initiator: itor_bus.rty
    itor_dat_r,   \* per initiator: itor_bus.dat_r
    \* ---- csr.Multiplexer with one element, and the MockRegister behind it
    mux_addr,     \* Multiplexer.bus.addr sampled at the last edge
    mux_r_stb,    \* Multiplexer.bus.r_stb sampled at the last edge
    mux_w_stb,    \* Multiplexer.bus.w_stb sampled at the last edge
    mux_w_data,   \* Multiplexer.bus.w_data sampled at the last edge
    mux_r_data,   \* Multiplexer.bus.r_data in the cycle after the last edge
    shadow,       \* the element's shadow register, one value per chunk
    shadow_en,    \* the element's shadow_en register: the set of its bits that are 1
    elem_r_stb,   \* element.r_stb in the cycle the last edge ended
    elem_w_stb,   \* element.w_stb, a register of the multiplexer
    data,         \* MockRegister.data
    old_data,     \* data before the last edge
    old_w_stb,    \* element.w_stb before the last edge
    snap,         \* history: the register value at the latest first-chunk read
    written,      \* history: the chunks written in the current write sequence, with their values
    old_written,  \* history: written before the last edge, when that edge committed
    \* ---- csr.dsl register (a register of a Bank, or standalone)
    reg_access,   \* the access mode of the register
    field_access, \* per field: Field.access
    csr_s,        \* the register signal csr_obj.s
    old_s,        \* csr_s before the last edge
    rst_stb,      \* csr_obj.rst_stb
    bank_rst_stb, \* Bank._reset_strobe
    int_w_stb,    \* csr_obj.int_w_stb
    field_int_w_stb, \* per field: field.int_w_stb
    reg_w_stb,    \* the bus write strobe for the register (w_stb of its element)
    reg_r_stb,    \* the bus read strobe for the register (r_stb of its element)
    reg_r_data,   \* r_data of the register's bus element
    reg_w_data,   \* w_data of the register's bus element sampled at the last edge
    int_w_data,   \* csr_obj.int_w_data sampled at the last edge
    \* ---- csr.wishbone.WishboneCSRBridge
    br_n,         \* len(wb_bus.sel): Wishbone data width / CSR data width
    br_cyc,       \* wb_bus.cyc
    br_stb,       \* wb_bus.stb
    br_we,        \* wb_bus.we
    br_sel,       \* wb_bus.sel: the set of its bits that are 1
    br_adr,       \* wb_bus.adr
    br_dat_w,     \* wb_bus.dat_w, per lane: the lane's slice
    br_csr_addr,  \* csr_bus.addr
    br_csr_w_data, \* csr_bus.w_data
    old_counter,  \* counter before the last edge
    br_counter,   \* counter
    br_ack,       \* wb_bus.ack
    br_r_stb,     \* csr_bus.r_stb
    br_w_stb,     \* csr_bus.w_stb
    old_ack,      \* wb_bus.ack before the last edge
    br_elapsed,   \* history: clock edges since the transaction began, 0 when there is none
    br_acks,      \* history: ack pulses since cyc and stb were last sampled low
    \* ---- wishbone.Decoder
    dec_windows,  \* per subordinate: the window returned by add() and the bus widths
    dec_adr,      \* bus.adr
    dec_cyc,      \* bus.cyc
    sub_ack,      \* per subordinate: sub_bus.ack
    sub_err,      \* per subordinate: sub_bus.err
    sub_rty,      \* per subordinate: sub_bus.rty
    sub_dat_r,    \* per subordinate: sub_bus.dat_r
    sub_cyc,      \* per subordinate: sub_bus.cyc
    sub_adr,      \* per subordinate: sub_bus.adr
    dec_ack,      \* bus.ack
    dec_err,      \* bus.err
    dec_rty,      \* bus.rty
    dec_dat_r,    \* bus.dat_r
    \* ---- wishbone.Arbiter, the request signals it forwards and stall
    itor_features, \* per initiator: the optional signals it has
    itor_ratio,   \* per initiator: its granularity // the arbiter's granularity
    itor_adr,     \* per initiator: itor_bus.adr
    itor_dat_w,   \* per initiator: itor_bus.dat_w
    itor_we,      \* per initiator: itor_bus.we
    itor_sel,     \* per initiator: itor_bus.sel, the set of its bits that are 1
    itor_cti,     \* per initiator: itor_bus.cti
    itor_bte,     \* per initiator: itor_bus.bte
    bus_adr,      \* bus.adr
    bus_dat_w,    \* bus.dat_w
    bus_we,       \* bus.we
    bus_sel,      \* bus.sel, the set of its bits that are 1
    bus_cti,      \* bus.cti
    bus_bte,      \* bus.bte
    bus_stall,    \* bus.stall
    itor_stall,   \* per initiator: itor_bus.stall
    \* ---- csr.dsl: the clock domain's reset and a second register of the bank
    dom_rst,      \* the reset of the sync domain (ResetInserter)
    reg2_s,       \* the second register's csr_obj.s
    reg2_rst_stb, \* the second register's csr_obj.rst_stb
    reg2_int_w_stb, \* the second register's csr_obj.int_w_stb
    reg2_w_stb,   \* the second register's elem.w_stb
    \* ---- csr.dsl._RegisterBuilder under construction
    reg_builder,  \* the register: access, width, _fields, _bitcount
    add_field,    \* the last _add_field call: its field, what it raised, the register before
    \* ---- wishbone.Decoder under construction
    dec_map,      \* the decoder: features, alignment, windows, _subs, next address, add calls
    dec_call,     \* the last add or align_to call: arguments, outcome, the decoder before
    \* ---- wishbone.SRAM
    sram_bus,     \* bus.cyc, stb, we, ack and the write enable of the memory port
    sram_old,     \* cyc, stb, ack sampled by the last edge; the request observed so far
    \* ---- csr.dsl.Bank under construction
    bank_build,   \* the bank: inside a with-block or not, _regs, _elements, _muxes
    \* ---- wishbone.bus.Arbiter, one initiator watched
    arb_watch     \* the watched initiator, and the grant changes while it waits

rrVars == <<n, request, stb, grant, old_grant>>
arbIn == <<itor_cyc, itor_stb, itor_lock, bus_ack, bus_err, bus_rty, bus_dat_r>>
arbOut == <<bus_cyc, bus_stb, bus_lock, itor_ack, itor_err, itor_rty, itor_dat_r>>
arbVars == <<features, itor_has_lock, arbIn, arbOut>>
muxVars == <<mux_addr, mux_r_stb, mux_w_stb, mux_w_data, mux_r_data, shadow, shadow_en,
             elem_r_stb, elem_w_stb, data, old_data, old_w_stb, snap, written, old_written>>
regStrobes == <<rst_stb, bank_rst_stb, int_w_stb, field_int_w_stb, reg_w_stb, reg_r_stb>>
regVars == <<reg_access, field_access, csr_s, old_s, regStrobes, reg_w_data, int_w_data,
             reg_r_data>>
brIn == <<br_cyc, br_stb, br_we, br_sel, br_adr, br_dat_w>>
brOut == <<br_r_stb, br_w_stb, br_csr_addr, br_csr_w_data>>
brVars == <<br_n, brIn, br_counter, br_ack, brOut, old_ack, old_counter, br_elapsed, br_acks>>
decIn == <<dec_adr, dec_cyc, sub_ack, sub_err, sub_rty, sub_dat_r>>
decOut == <<sub_cyc, sub_adr, dec_ack, dec_err, dec_rty, dec_dat_r>>
decVars == <<dec_windows, decIn, decOut>>
fwdIn == <<itor_adr, itor_dat_w, itor_we, itor_sel, itor_cti, itor_bte>>
fwdOut == <<bus_adr, bus_dat_w, bus_we, bus_sel, bus_cti, bus_bte>>
stallVars == <<bus_stall, itor_stall>>
sigVars == <<itor_features, itor_ratio, fwdIn, fwdOut, stallVars>>
bankVars == <<dom_rst, reg2_s, reg2_rst_stb, reg2_int_w_stb, reg2_w_stb>>
conVars == <<reg_builder, add_field, dec_map, dec_call, sram_bus, sram_old, bank_build, arb_watch>>
vars == <<phase, rrVars, arbVars, muxVars, regVars, brVars, decVars, sigVars, bankVars, conVars>>

Requesters(k) == 0 .. (k - 1)

(***************************************************************************)
(* scheduler.RoundRobin                                                    *)
(***************************************************************************)

\* The statements of the loop "for j in reversed(range(i+1, i+n))" from index j
\* down to i+1.  Each "with m.If(request[t]): grant.eq(t)" is a separate If, so
\* a later statement overrides an earlier one: acc is the value assigned so far.
RECURSIVE RoundRobinScan(_, _, _, _, _)
RoundRobinScan(k, i, req, j, acc) ==
    IF j < i + 1
    THEN acc
    ELSE LET t == j % k
         IN  RoundRobinScan(k, i, req, j - 1, IF req[t] THEN t ELSE acc)

\* Mutant: the scan without reversed(), so that the farthest requester wins.
RECURSIVE RoundRobinScanForward(_, _, _, _, _)
RoundRobinScanForward(k, i, req, j, acc) ==
    IF j < i + 1
    THEN acc
    ELSE LET t == (2 * i + k - j) % k
         IN  RoundRobinScanForward(k, i, req, j - 1, IF req[t] THEN t ELSE acc)

\* Mutant: the loop without reversed().
RoundRobinLoopForward(k, i, req) ==
    RoundRobinScanForward(k, i, req, i + k - 1, i)

\* Mutant: the loop as a fixed priority: the requester of the lowest index
\* is granted, wherever the grant was.
RoundRobinLoopFixed(k, i, req) ==
    IF \E t \in Requesters(k) : req[t]
    THEN CHOOSE t \in Requesters(k) : req[t] /\ \A u \in Requesters(k) : req[u] => t <= u
    ELSE i

\* The whole loop of lines 38-43; grant keeps the value i when no statement
\* of the loop assigns it.
RoundRobinLoop(k, i, req) ==
    RoundRobinScan(k, i, req, i + k - 1, i)

\* Mutant: the Case body without "with m.If(~self.request[i])".
RoundRobinCasePreempt(k, i, req) ==
    RoundRobinLoop(k, i, req)

\* The body of "with m.Case(i)": the value grant takes at the edge.
RoundRobinCase(k, i, req) ==
    IF ~req[i]
    THEN RoundRobinLoop(k, i, req)
    ELSE i

\* Mutant: the Switch executed at every edge and from a requesting grant too,
\* with neither "with m.If(self.stb)" nor "with m.If(~self.request[i])".
RoundRobinNextFree(k, g, req, s) ==
    IF g \in Requesters(k) THEN RoundRobinLoop(k, g, req) ELSE g

\* Mutant: the Switch executed at every edge, without "with m.If(self.stb)".
RoundRobinNextUnstrobed(k, g, req, s) ==
    IF g \in Requesters(k) THEN RoundRobinCase(k, g, req) ELSE g

\* The value of grant after a clock edge.
RoundRobinNext(k, g, req, s) ==
    IF s /\ g \in Requesters(k)
    THEN RoundRobinCase(k, g, req)
    ELSE g

\* The sync domain is never reset and the bank has no second register.
BankAbsent ==
    /\ dom_rst = FALSE /\ reg2_s = <<>>
    /\ reg2_rst_stb = FALSE /\ reg2_int_w_stb = FALSE /\ reg2_w_stb = FALSE

\* No register is under construction.
BuilderAbsent == reg_builder = <<>> /\ add_field = <<>>

\* No decoder is under construction.
MapAbsent == dec_map = <<>> /\ dec_call = <<>>

\* The design has no SRAM.
SramAbsent == sram_bus = <<>> /\ sram_old = <<>>

\* No bank is being filled.
BankBuildAbsent == bank_build = <<>>

\* No initiator is watched.
WatchAbsent == arb_watch = <<>>

\* Nothing is being constructed, and the design has no SRAM.
ConAbsent == BuilderAbsent /\ MapAbsent /\ SramAbsent /\ BankBuildAbsent /\ WatchAbsent

\* The arbiter's forwarded request signals and stall are not part of the design.
SignalsAbsent ==
    /\ itor_features = <<>> /\ itor_ratio = <<>>
    /\ itor_adr = <<>> /\ itor_dat_w = <<>> /\ itor_we = <<>> /\ itor_sel = <<>>
    /\ itor_cti = <<>> /\ itor_bte = <<>>
    /\ bus_adr = 0 /\ bus_dat_w = 0 /\ bus_we = FALSE /\ bus_sel = {}
    /\ bus_cti = "CLASSIC" /\ bus_bte = "LINEAR"
    /\ bus_stall = FALSE /\ itor_stall = <<>>

\* The decoder is not part of the design.
DecoderAbsent ==
    /\ dec_windows = <<>> /\ dec_adr = 0 /\ dec_cyc = FALSE
    /\ sub_ack = <<>> /\ sub_err = <<>> /\ sub_rty = <<>> /\ sub_dat_r = <<>>
    /\ sub_cyc = <<>> /\ sub_adr = <<>>
    /\ dec_ack = FALSE /\ dec_err = FALSE /\ dec_rty = FALSE /\ dec_dat_r = 0

\* The bridge is not part of the design.
BridgeAbsent ==
    /\ br_n = 0 /\ br_cyc = FALSE /\ br_stb = FALSE /\ br_we = FALSE /\ br_sel = {}
    /\ br_adr = 0 /\ br_dat_w = <<>> /\ br_csr_addr = 0 /\ br_csr_w_data = 0
    /\ br_counter = 0 /\ br_ack = FALSE /\ br_r_stb = FALSE /\ br_w_stb = FALSE
    /\ old_ack = FALSE /\ old_counter = 0 /\ br_elapsed = 0 /\ br_acks = 0

\* The multiplexer is not part of the design.
MuxAbsent ==
    /\ mux_addr = 0 /\ mux_r_stb = FALSE /\ mux_w_stb = FALSE /\ mux_w_data = 0
    /\ mux_r_data = 0 /\ shadow = <<>> /\ shadow_en = {}
    /\ elem_r_stb = FALSE /\ elem_w_stb = FALSE
    /\ data = <<>> /\ old_data = <<>> /\ old_w_stb = FALSE
    /\ snap = <<>> /\ written = <<>> /\ old_written = <<>>

\* The CSR register is not part of the design.
RegAbsent ==
    /\ reg_access = "rw" /\ field_access = <<>>
    /\ csr_s = <<>> /\ old_s = <<>>
    /\ rst_stb = FALSE /\ bank_rst_stb = FALSE /\ int_w_stb = FALSE
    /\ field_int_w_stb = <<>> /\ reg_w_stb = FALSE
    /\ reg_w_data = <<>> /\ int_w_data = <<>>
    /\ reg_r_stb = FALSE /\ reg_r_data = <<>>

\* The arbiter is not part of the design.
ArbAbsent ==
    /\ features = {}
    /\ itor_has_lock = <<>>
    /\ itor_cyc = <<>> /\ itor_stb = <<>> /\ itor_lock = <<>>
    /\ bus_ack = FALSE /\ bus_err = FALSE /\ bus_rty = FALSE /\ bus_dat_r = 0
    /\ bus_cyc = FALSE /\ bus_stb = FALSE /\ bus_lock = FALSE
    /\ itor_ack = <<>> /\ itor_err = <<>> /\ itor_rty = <<>> /\ itor_dat_r = <<>>

InitRR ==
    /\ phase = "drive"
    /\ ArbAbsent /\ MuxAbsent /\ RegAbsent /\ BridgeAbsent /\ DecoderAbsent /\ SignalsAbsent /\ BankAbsent /\ ConAbsent
    /\ n \in 1 .. MaxRequests
    /\ request = [i \in Requesters(n) |-> FALSE]
    /\ stb = FALSE
    /\ grant = 0
    /\ old_grant = 0

\* The environment drives one request bit.
RRDriveRequest ==
    /\ \E i \in Requesters(n), b \in BOOLEAN :
          /\ request[i] # b
          /\ request' = [request EXCEPT ![i] = b]
    /\ phase' = "drive"
    /\ UNCHANGED <<n, stb, grant, old_grant, arbVars, muxVars, regVars, brVars, decVars, sigVars, bankVars, conVars>>

\* The environment drives the advance strobe.
RRDriveStb ==
    /\ stb' = ~stb
    /\ phase' = "drive"
    /\ UNCHANGED <<n, request, grant, old_grant, arbVars, muxVars, regVars, brVars, decVars, sigVars, bankVars, conVars>>

\* One clock edge of the scheduler.
RRTick ==
    /\ grant' = RoundRobinNext(n, grant, request, stb)
    /\ old_grant' = grant
    /\ phase' = "edge"
    /\ UNCHANGED <<n, request, stb, arbVars, muxVars, regVars, brVars, decVars, sigVars, bankVars, conVars>>

NextRR == RRDriveRequest \/ RRDriveStb \/ RRTick

SpecRR == InitRR /\ [][NextRR]_vars

(***************************************************************************)
(* wishbone.bus.Arbiter                                                    *)
(***************************************************************************)

BusFeatures == {"lock", "err", "rty"}
DataValues == 0 .. 1

\* bus_busy: CYC, and with the lock feature LOCK or STB as well.
BusBusy(feat, cyc, lock, s) ==
    IF "lock" \in feat THEN cyc /\ (lock \/ s) ELSE cyc

\* scheduler.stb.eq(~bus_busy)
SchedulerStb(feat, cyc, lock, s) == ~BusBusy(feat, cyc, lock, s)

\* self.bus.lock.eq(getattr(itor_bus, "lock", 1)) in the Case of initiator g;
\* the signal does not exist (FALSE here) when the bus lacks the feature.
ArbBusLock(feat, has, lock, g) ==
    IF "lock" \in feat
    THEN (IF has[g] THEN lock[g] ELSE TRUE)
    ELSE FALSE

\* Mutant: the acknowledge forwarded to every initiator.
ArbItorAckUngated(i, g, ack) == ack

\* itor_bus.ack.eq(self.bus.ack) inside "with m.Case(i)" of m.Switch(grant);
\* outside its Case the signal keeps its reset value 0.
ArbItorAck(i, g, ack) == IF g = i THEN ack ELSE FALSE

\* itor_bus.err.eq(getattr(self.bus, "err", 0)) inside the Case, likewise rty.
ArbItorOpt(i, g, feat, name, val) ==
    IF g = i THEN (IF name \in feat THEN val ELSE FALSE) ELSE FALSE

\* itor_bus.dat_r.eq(self.bus.dat_r), outside the Case: every initiator.
ArbItorDatR(i, g, d) == d

\* The combinational statements of Arbiter.elaborate, for the grant g and the
\* input signals given: the values of every signal the arbiter drives.
ArbSettle(g, cyc, s, lock, ack, err, rty, d) ==
    LET I == Requesters(n)
        bl == ArbBusLock(features, itor_has_lock, lock, g)
    IN  /\ request' = cyc
        /\ bus_cyc' = cyc[g]
        /\ bus_stb' = s[g]
        /\ bus_lock' = bl
        /\ stb' = SchedulerStb(features, cyc[g], bl, s[g])
        /\ itor_ack' = [i \in I |-> ArbItorAck(i, g, ack)]
        /\ itor_err' = [i \in I |-> ArbItorOpt(i, g, features, "err", err)]
        /\ itor_rty' = [i \in I |-> ArbItorOpt(i, g, features, "rty", rty)]
        /\ itor_dat_r' = [i \in I |-> ArbItorDatR(i, g, d)]

InitArb ==
    /\ phase = "drive"
    /\ MuxAbsent /\ RegAbsent /\ BridgeAbsent /\ DecoderAbsent /\ SignalsAbsent /\ BankAbsent /\ ConAbsent
    /\ n \in 1 .. MaxItors
    /\ features \in SUBSET BusFeatures
    /\ itor_has_lock \in [Requesters(n) -> BOOLEAN]
    \* Arbiter.add refuses an initiator with a lock output the bus lacks
    /\ \A i \in Requesters(n) : itor_has_lock[i] => "lock" \in features
    /\ grant = 0
    /\ old_grant = 0
    /\ itor_cyc = [i \in Requesters(n) |-> FALSE]
    /\ itor_stb = [i \in Requesters(n) |-> FALSE]
    /\ itor_lock = [i \in Requesters(n) |-> FALSE]
    /\ bus_ack = FALSE /\ bus_err = FALSE /\ bus_rty = FALSE /\ bus_dat_r = 0
    /\ request = itor_cyc
    /\ bus_cyc = FALSE /\ bus_stb = FALSE
    /\ bus_lock = ArbBusLock(features, itor_has_lock, itor_lock, 0)
    /\ stb = SchedulerStb(features, FALSE, bus_lock, FALSE)
    /\ itor_ack = [i \in Requesters(n) |-> FALSE]
    /\ itor_err = [i \in Requesters(n) |-> FALSE]
    /\ itor_rty = [i \in Requesters(n) |-> FALSE]
    /\ itor_dat_r = [i \in Requesters(n) |-> 0]

\* An initiator drives its cyc.
ArbDriveCyc ==
    /\ \E i \in Requesters(n) :
          itor_cyc' = [itor_cyc EXCEPT ![i] = ~itor_cyc[i]]
    /\ ArbSettle(grant, itor_cyc', itor_stb, itor_lock, bus_ack, bus_err, bus_rty, bus_dat_r)
    /\ phase' = "drive"
    /\ UNCHANGED <<n, grant, old_grant, features, itor_has_lock,
                   itor_stb, itor_lock, bus_ack, bus_err, bus_rty, bus_dat_r, muxVars, regVars, brVars, decVars, sigVars, bankVars, conVars>>

\* An initiator drives its stb.
ArbDriveStb ==
    /\ \E i \in Requesters(n) :
          itor_stb' = [itor_stb EXCEPT ![i] = ~itor_stb[i]]
    /\ ArbSettle(grant, itor_cyc, itor_stb', itor_lock, bus_ack, bus_err, bus_rty, bus_dat_r)
    /\ phase' = "drive"
    /\ UNCHANGED <<n, grant, old_grant, features, itor_has_lock,
                   itor_cyc, itor_lock, bus_ack, bus_err, bus_rty, bus_dat_r, muxVars, regVars, brVars, decVars, sigVars, bankVars, conVars>>

\* An initiator that has the signal drives its lock.
ArbDriveLock ==
    /\ \E i \in Requesters(n) :
          /\ itor_has_lock[i]
          /\ itor_lock' = [itor_lock EXCEPT ![i] = ~itor_lock[i]]
    /\ ArbSettle(grant, itor_cyc, itor_stb, itor_lock', bus_ack, bus_err, bus_rty, bus_dat_r)
    /\ phase' = "drive"
    /\ UNCHANGED <<n, grant, old_grant, features, itor_has_lock,
                   itor_cyc, itor_stb, bus_ack, bus_err, bus_rty, bus_dat_r, muxVars, regVars, brVars, decVars, sigVars, bankVars, conVars>>

\* The target drives one of its response signals.
ArbDriveResponse ==
    /\ \/ /\ bus_ack' = ~bus_ack
          /\ UNCHANGED <<bus_err, bus_rty, bus_dat_r>>
       \/ /\ "err" \in features
          /\ bus_err' = ~bus_err
          /\ UNCHANGED <<bus_ack, bus_rty, bus_dat_r>>
       \/ /\ "rty" \in features
          /\ bus_rty' = ~bus_rty
          /\ UNCHANGED <<bus_ack, bus_err, bus_dat_r>>
       \/ /\ \E d \in DataValues : d # bus_dat_r /\ bus_dat_r' = d
          /\ UNCHANGED <<bus_ack, bus_err, bus_rty>>
    /\ ArbSettle(grant, itor_cyc, itor_stb, itor_lock, bus_ack', bus_err', bus_rty', bus_dat_r')
    /\ phase' = "drive"
    /\ UNCHANGED <<n, grant, old_grant, features, itor_has_lock,
                   itor_cyc, itor_stb, itor_lock, muxVars, regVars, brVars, decVars, sigVars, bankVars, conVars>>

\* One clock edge: the scheduler's grant is the only register.
ArbTick ==
    /\ grant' = RoundRobinNext(n, grant, request, stb)
    /\ old_grant' = grant
    /\ ArbSettle(grant', itor_cyc, itor_stb, itor_lock, bus_ack, bus_err, bus_rty, bus_dat_r)
    /\ phase' = "edge"
    /\ UNCHANGED <<n, features, itor_has_lock, arbIn, muxVars, regVars, brVars, decVars, sigVars, bankVars, conVars>>

NextArb ==
    ArbDriveCyc \/ ArbDriveStb \/ ArbDriveLock \/ ArbDriveResponse \/ ArbTick

SpecArb == InitArb /\ [][NextArb]_vars

(***************************************************************************)
(* wishbone.bus.Arbiter, the request signals forwarded to the shared bus:  *)
(* the two initiators of the arbiter's test, the first one at the          *)
(* arbiter's granularity and without optional signals, the second one at   *)
(* twice the granularity and with lock, cti and bte.                       *)
(***************************************************************************)

\* itor_2.granularity // dut.bus.granularity
SigRatio == 2

\* The bits of bus.sel: data_width // granularity of the arbiter.
BusSelBits == 0 .. (SigRatio - 1)

\* The bits of an initiator's sel.
ItorSelBits(r) == 0 .. ((SigRatio \div r) - 1)

CycleTypes == {"CLASSIC", "INCR_BURST"}
BurstTypes == {"LINEAR", "WRAP_4"}
SigFeatures == {"lock", "cti", "bte"}

\* bus.sel with one bit per initiator sel bit, not replicated.
ArbBusSelThin(sel, r) == sel

\* Cat(Repl(sel, ratio) for sel in itor_bus.sel): bit k of the initiator's
\* sel drives bits k * ratio .. k * ratio + ratio - 1 of bus.sel.
ArbBusSel(sel, r) == {b \in BusSelBits : (b \div r) \in sel}

\* self.bus.adr.eq(itor_bus.adr), likewise dat_w and we, in the Case of the
\* granted initiator.
ArbBusPayload(g, val) == val[g]

\* self.bus.cti.eq(getattr(itor_bus, "cti", CycleType.CLASSIC)) and
\* self.bus.bte.eq(getattr(itor_bus, "bte", BurstTypeExt.LINEAR)), present
\* when the bus has the signal; dflt is the value of the getattr default, which
\* is also the reset value of the signal.
ArbBusOpt(feat, ifeat, name, val, dflt) ==
    IF name \in feat /\ name \in ifeat THEN val ELSE dflt

\* The forwarded request signals for the grant g.
SigSettle(g, adr, dat, we, sel, cti, bte) ==
    /\ bus_adr' = ArbBusPayload(g, adr)
    /\ bus_dat_w' = ArbBusPayload(g, dat)
    /\ bus_we' = ArbBusPayload(g, we)
    /\ bus_sel' = ArbBusSel(sel[g], itor_ratio[g])
    /\ bus_cti' = ArbBusOpt(features, itor_features[g], "cti", cti[g], "CLASSIC")
    /\ bus_bte' = ArbBusOpt(features, itor_features[g], "bte", bte[g], "LINEAR")

InitSig ==
    /\ phase = "drive"
    /\ MuxAbsent /\ RegAbsent /\ BridgeAbsent /\ DecoderAbsent /\ BankAbsent /\ ConAbsent
    /\ n = 2
    /\ features = SigFeatures
    /\ itor_features = [i \in Requesters(n) |-> IF i = 0 THEN {} ELSE SigFeatures]
    /\ itor_ratio = [i \in Requesters(n) |-> IF i = 0 THEN 1 ELSE SigRatio]
    /\ itor_has_lock = [i \in Requesters(n) |-> "lock" \in itor_features[i]]
    /\ grant = 0 /\ old_grant = 0
    /\ itor_cyc = [i \in Requesters(n) |-> FALSE]
    /\ itor_stb = [i \in Requesters(n) |-> FALSE]
    /\ itor_lock = [i \in Requesters(n) |-> FALSE]
    /\ itor_adr = [i \in Requesters(n) |-> 0]
    /\ itor_dat_w = [i \in Requesters(n) |-> 0]
    /\ itor_we = [i \in Requesters(n) |-> FALSE]
    /\ itor_sel = [i \in Requesters(n) |-> {}]
    /\ itor_cti = [i \in Requesters(n) |-> "CLASSIC"]
    /\ itor_bte = [i \in Requesters(n) |-> "LINEAR"]
    /\ bus_ack = FALSE /\ bus_err = FALSE /\ bus_rty = FALSE /\ bus_dat_r = 0
    /\ request = itor_cyc
    /\ stb = TRUE
    /\ bus_cyc = FALSE /\ bus_stb = FALSE /\ bus_lock = TRUE
    /\ itor_ack = [i \in Requesters(n) |-> FALSE]
    /\ itor_err = [i \in Requesters(n) |-> FALSE]
    /\ itor_rty = [i \in Requesters(n) |-> FALSE]
    /\ itor_dat_r = [i \in Requesters(n) |-> 0]
    /\ bus_adr = 0 /\ bus_dat_w = 0 /\ bus_we = FALSE /\ bus_sel = {}
    /\ bus_cti = "CLASSIC" /\ bus_bte = "LINEAR"
    /\ bus_stall = FALSE /\ itor_stall = [i \in Requesters(n) |-> FALSE]

\* An initiator drives one of the request signals it has.
SigDrive ==
    /\ \E i \in Requesters(n) :
          \/ /\ itor_cyc' = [itor_cyc EXCEPT ![i] = ~itor_cyc[i]]
             /\ UNCHANGED <<itor_stb, itor_lock, fwdIn>>
          \/ /\ itor_stb' = [itor_stb EXCEPT ![i] = ~itor_stb[i]]
             /\ UNCHANGED <<itor_cyc, itor_lock, fwdIn>>
          \/ /\ "lock" \in itor_features[i]
             /\ itor_lock' = [itor_lock EXCEPT ![i] = ~itor_lock[i]]
             /\ UNCHANGED <<itor_cyc, itor_stb, fwdIn>>
          \/ /\ itor_adr' = [itor_adr EXCEPT ![i] = 1 - itor_adr[i]]
             /\ UNCHANGED <<itor_cyc, itor_stb, itor_lock,
                            itor_dat_w, itor_we, itor_sel, itor_cti, itor_bte>>
          \/ /\ itor_dat_w' = [itor_dat_w EXCEPT ![i] = 1 - itor_dat_w[i]]
             /\ UNCHANGED <<itor_cyc, itor_stb, itor_lock,
                            itor_adr, itor_we, itor_sel, itor_cti, itor_bte>>
          \/ /\ itor_we' = [itor_we EXCEPT ![i] = ~itor_we[i]]
             /\ UNCHANGED <<itor_cyc, itor_stb, itor_lock,
                            itor_adr, itor_dat_w, itor_sel, itor_cti, itor_bte>>
          \/ /\ \E b \in ItorSelBits(itor_ratio[i]) :
                   itor_sel' = [itor_sel EXCEPT ![i] =
                                   IF b \in @ THEN @ \ {b} ELSE @ \cup {b}]
             /\ UNCHANGED <<itor_cyc, itor_stb, itor_lock,
                            itor_adr, itor_dat_w, itor_we, itor_cti, itor_bte>>
          \/ /\ "cti" \in itor_features[i]
             /\ \E c \in CycleTypes \ {itor_cti[i]} :
                   itor_cti' = [itor_cti EXCEPT ![i] = c]
             /\ UNCHANGED <<itor_cyc, itor_stb, itor_lock,
                            itor_adr, itor_dat_w, itor_we, itor_sel, itor_bte>>
          \/ /\ "bte" \in itor_features[i]
             /\ \E c \in BurstTypes \ {itor_bte[i]} :
                   itor_bte' = [itor_bte EXCEPT ![i] = c]
             /\ UNCHANGED <<itor_cyc, itor_stb, itor_lock,
                            itor_adr, itor_dat_w, itor_we, itor_sel, itor_cti>>
    /\ ArbSettle(grant, itor_cyc', itor_stb', itor_lock', bus_ack, bus_err, bus_rty, bus_dat_r)
    /\ SigSettle(grant, itor_adr', itor_dat_w', itor_we', itor_sel', itor_cti', itor_bte')
    /\ UNCHANGED <<phase, n, grant, old_grant, features, itor_has_lock,
                   bus_ack, bus_err, bus_rty, bus_dat_r,
                   itor_features, itor_ratio, stallVars,
                   muxVars, regVars, brVars, decVars, bankVars, conVars>>

\* One clock edge: the scheduler's grant is the only register.  The forwarded
\* signals are combinatorial, so no history of the edge is kept.
SigTick ==
    /\ grant' = RoundRobinNext(n, grant, request, stb)
    /\ ArbSettle(grant', itor_cyc, itor_stb, itor_lock, bus_ack, bus_err, bus_rty, bus_dat_r)
    /\ SigSettle(grant', itor_adr, itor_dat_w, itor_we, itor_sel, itor_cti, itor_bte)
    /\ UNCHANGED <<phase, old_grant, n, features, itor_has_lock, arbIn, itor_features, itor_ratio, fwdIn,
                   stallVars, muxVars, regVars, brVars, decVars, bankVars, conVars>>

NextSig == SigDrive \/ SigTick

SpecSig == InitSig /\ [][NextSig]_vars

(***************************************************************************)
(* wishbone.bus.Arbiter, the stall signal of the initiators.               *)
(***************************************************************************)

\* The stall of the shared bus forwarded to every initiator.
ArbItorStallBroadcast(i, g, feat, ifeat, stall, ack) ==
    IF "stall" \in ifeat
    THEN (IF "stall" \in feat THEN stall ELSE ~ack)
    ELSE FALSE

\* itor_bus.stall of an initiator that has the signal: itor_bus_stall, whose
\* reset value is 1, assigned getattr(self.bus, "stall", ~self.bus.ack) in the
\* initiator's Case.  An initiator without the signal has nothing (FALSE here).
ArbItorStall(i, g, feat, ifeat, stall, ack) ==
    IF "stall" \in ifeat
    THEN (IF g = i THEN (IF "stall" \in feat THEN stall ELSE ~ack) ELSE TRUE)
    ELSE FALSE

StallSettle(g, stall, ack) ==
    itor_stall' = [i \in Requesters(n) |->
                      ArbItorStall(i, g, features, itor_features[i], stall, ack)]

InitStall ==
    /\ phase = "drive"
    /\ MuxAbsent /\ RegAbsent /\ BridgeAbsent /\ DecoderAbsent /\ BankAbsent /\ ConAbsent
    /\ n \in 1 .. MaxItors
    /\ features \in {{}, {"stall"}}
    /\ itor_features \in [Requesters(n) -> {{}, {"stall"}}]
    /\ itor_has_lock = [i \in Requesters(n) |-> FALSE]
    /\ grant = 0 /\ old_grant = 0
    /\ itor_cyc = [i \in Requesters(n) |-> FALSE]
    /\ itor_stb = [i \in Requesters(n) |-> FALSE]
    /\ itor_lock = [i \in Requesters(n) |-> FALSE]
    /\ bus_ack = FALSE /\ bus_err = FALSE /\ bus_rty = FALSE /\ bus_dat_r = 0
    /\ request = itor_cyc
    /\ stb = TRUE
    /\ bus_cyc = FALSE /\ bus_stb = FALSE /\ bus_lock = FALSE
    /\ itor_ack = [i \in Requesters(n) |-> FALSE]
    /\ itor_err = [i \in Requesters(n) |-> FALSE]
    /\ itor_rty = [i \in Requesters(n) |-> FALSE]
    /\ itor_dat_r = [i \in Requesters(n) |-> 0]
    /\ bus_stall = FALSE
    /\ itor_stall = [i \in Requesters(n) |->
                        ArbItorStall(i, 0, features, itor_features[i], FALSE, FALSE)]
    /\ itor_ratio = <<>>
    /\ itor_adr = <<>> /\ itor_dat_w = <<>> /\ itor_we = <<>> /\ itor_sel = <<>>
    /\ itor_cti = <<>> /\ itor_bte = <<>>
    /\ bus_adr = 0 /\ bus_dat_w = 0 /\ bus_we = FALSE /\ bus_sel = {}
    /\ bus_cti = "CLASSIC" /\ bus_bte = "LINEAR"

\* An initiator drives its cyc.
StallDriveCyc ==
    /\ \E i \in Requesters(n) :
          itor_cyc' = [itor_cyc EXCEPT ![i] = ~itor_cyc[i]]
    /\ ArbSettle(grant, itor_cyc', itor_stb, itor_lock, bus_ack, bus_err, bus_rty, bus_dat_r)
    /\ StallSettle(grant, bus_stall, bus_ack)
    /\ UNCHANGED <<phase, n, grant, old_grant, features, itor_has_lock,
                   itor_stb, itor_lock, bus_ack, bus_err, bus_rty, bus_dat_r,
                   itor_features, itor_ratio, fwdIn, fwdOut, bus_stall,
                   muxVars, regVars, brVars, decVars, bankVars, conVars>>

\* The target drives its stall, when the shared bus has one, or its ack.
StallDriveBus ==
    /\ \/ /\ "stall" \in features
          /\ bus_stall' = ~bus_stall
          /\ UNCHANGED bus_ack
       \/ /\ bus_ack' = ~bus_ack
          /\ UNCHANGED bus_stall
    /\ ArbSettle(grant, itor_cyc, itor_stb, itor_lock, bus_ack', bus_err, bus_rty, bus_dat_r)
    /\ StallSettle(grant, bus_stall', bus_ack')
    /\ UNCHANGED <<phase, n, grant, old_grant, features, itor_has_lock,
                   itor_cyc, itor_stb, itor_lock, bus_err, bus_rty, bus_dat_r,
                   itor_features, itor_ratio, fwdIn, fwdOut,
                   muxVars, regVars, brVars, decVars, bankVars, conVars>>

\* One clock edge: the scheduler's grant is the only register.
StallTick ==
    /\ grant' = RoundRobinNext(n, grant, request, stb)
    /\ ArbSettle(grant', itor_cyc, itor_stb, itor_lock, bus_ack, bus_err, bus_rty, bus_dat_r)
    /\ StallSettle(grant', bus_stall, bus_ack)
    /\ UNCHANGED <<phase, old_grant, n, features, itor_has_lock, arbIn,
                   itor_features, itor_ratio, fwdIn, fwdOut, bus_stall,
                   muxVars, regVars, brVars, decVars, bankVars, conVars>>

NextStall == StallDriveCyc \/ StallDriveBus \/ StallTick

SpecStall == InitStall /\ [][NextStall]_vars

(***************************************************************************)
(* csr.Multiplexer in front of one element wider than the bus, and the     *)
(* MockRegister of test_csr_wishbone behind the element.  The element      *)
(* takes MuxChunks bus addresses from address 0 on, one chunk of the       *)
(* register per address; a chunk is one bit wide.                          *)
(***************************************************************************)

\* Bound: the number of chunks of the element.
MuxChunks == 3

ChunkOffsets == 0 .. (MuxChunks - 1)
ChunkValues == 0 .. 1
\* The addresses of the bus: those of the element and one that is not mapped.
MuxAddrs == 0 .. MuxChunks
ElemStart == 0
ElemEnd == MuxChunks

\* The scheduler is not part of the design.
RRAbsent ==
    /\ n = 0 /\ request = <<>> /\ stb = FALSE /\ grant = 0 /\ old_grant = 0

\* Mutant: the register exposes 0 instead of its value.
MockRDataZero(d) == [k \in DOMAIN d |-> 0]

\* element.r_data.eq(self.data)
MockRData(d) == d

\* Mutant: the register takes w_data at every edge.
MockDataNextAlways(stb_w, dat_w, d) == dat_w

\* with m.If(self.element.w_stb): m.d.sync += self.data.eq(self.element.w_data)
MockDataNext(stb_w, dat_w, d) == IF stb_w THEN dat_w ELSE d

\* elem.r_stb.eq(bus.r_stb) in the Case of the first chunk address; 0 elsewhere.
MuxElemRStb(addr, stb_r) == addr = ElemStart /\ stb_r

\* elem.w_stb (sync): 0 by default, bus.w_stb in the Case of the last chunk.
MuxElemWStbNext(addr, stb_w) == addr = ElemEnd - 1 /\ stb_w

\* shadow_en (sync): 0 by default, bus.r_stb << chunk_offset in a chunk's Case.
MuxShadowEnNext(addr, stb_r) ==
    IF stb_r /\ addr \in ElemStart .. (ElemEnd - 1) THEN {addr - ElemStart} ELSE {}

\* shadow (sync): in the Case of the first chunk a read loads elem.r_data; then,
\* in the Case of any chunk, a write loads bus.w_data into the chunk's slice.
MuxShadowNext(sh, addr, stb_r, stb_w, dat_w, dat_r) ==
    LET loaded == IF stb_r /\ addr = ElemStart THEN dat_r ELSE sh
    IN  IF stb_w /\ addr \in ElemStart .. (ElemEnd - 1)
        THEN [loaded EXCEPT ![addr - ElemStart] = dat_w]
        ELSE loaded

\* bus.r_data: the OR over the chunks of Mux(shadow_en[chunk], shadow_slice, 0).
MuxRData(sh, en) == IF \E k \in en : sh[k] = 1 THEN 1 ELSE 0

\* The write history of a sequence in which no chunk has been written.
NoChunks == <<>>

InitMux ==
    /\ phase = "drive"
    /\ RRAbsent /\ ArbAbsent /\ RegAbsent /\ BridgeAbsent /\ DecoderAbsent /\ SignalsAbsent /\ BankAbsent /\ ConAbsent
    /\ mux_addr = 0 /\ mux_r_stb = FALSE /\ mux_w_stb = FALSE /\ mux_w_data = 0
    /\ shadow = [k \in ChunkOffsets |-> 0]
    /\ shadow_en = {}
    /\ elem_r_stb = FALSE /\ elem_w_stb = FALSE
    /\ mux_r_data = 0
    /\ data = [k \in ChunkOffsets |-> 0]
    /\ old_data = data
    /\ old_w_stb = FALSE
    /\ snap = <<>>
    /\ written = NoChunks
    /\ old_written = NoChunks

\* One clock edge of the multiplexer and of the register.  The bus master
\* presents one operation per cycle and never asserts both strobes.
MuxTick ==
    /\ \E a \in MuxAddrs, r \in BOOLEAN, w \in BOOLEAN, d \in ChunkValues :
          /\ ~(r /\ w)
          /\ mux_addr' = a /\ mux_r_stb' = r /\ mux_w_stb' = w /\ mux_w_data' = d
          /\ elem_r_stb' = MuxElemRStb(a, r)
          /\ shadow' = MuxShadowNext(shadow, a, r, w, d, MockRData(data))
          /\ shadow_en' = MuxShadowEnNext(a, r)
          /\ elem_w_stb' = MuxElemWStbNext(a, w)
          \* history
          /\ snap' = IF r /\ a = ElemStart THEN data
                     ELSE IF w /\ a \in ChunkOffsets THEN <<>>
                     ELSE snap
          /\ LET open == IF elem_w_stb THEN NoChunks ELSE written
             IN  written' = IF r /\ a = ElemStart THEN NoChunks
                            ELSE IF w /\ a \in ChunkOffsets
                                 THEN [k \in DOMAIN open \cup {a} |->
                                          IF k = a THEN d ELSE open[k]]
                            ELSE open
    /\ mux_r_data' = MuxRData(shadow', shadow_en')
    \* elem.w_data.eq(shadow)
    /\ data' = MockDataNext(elem_w_stb, shadow, data)
    /\ old_data' = data
    /\ old_w_stb' = elem_w_stb
    /\ old_written' = IF elem_w_stb THEN written ELSE NoChunks
    /\ phase' = "edge"
    /\ UNCHANGED <<rrVars, arbVars, regVars, brVars, decVars, sigVars, bankVars, conVars>>

\* The logic that owns the register changes one chunk of its value between
\* two clock edges.
MuxLogicChange ==
    /\ \E k \in ChunkOffsets : data' = [data EXCEPT ![k] = 1 - data[k]]
    /\ old_data' = data'
    /\ old_w_stb' = FALSE
    /\ old_written' = NoChunks
    /\ phase' = "drive"
    /\ UNCHANGED <<mux_addr, mux_r_stb, mux_w_stb, mux_w_data, mux_r_data, shadow,
                   shadow_en, elem_r_stb, elem_w_stb, snap, written,
                   rrVars, arbVars, regVars, brVars, decVars, sigVars, bankVars, conVars>>

NextMux == MuxTick \/ MuxLogicChange

SpecMux == InitMux /\ [][NextMux]_vars

(***************************************************************************)
(* csr.dsl: one register of fixed width RegWidth with two fields and one   *)
(* bit that belongs to no field, elaborated by Bank.elaborate.  The logic  *)
(* of _RegisterStandalone.elaborate is the same with the strobe of the     *)
(* bank absent (bank_rst_stb low).  A register value is a bit vector.      *)
(***************************************************************************)

\* Bound: the width of the register.
RegWidth == 3

RegBits == 0 .. (RegWidth - 1)
BitVectors == [RegBits -> {0, 1}]
ZeroVector == [i \in RegBits |-> 0]

\* The fields: "a" is bit 0, "b" the bits above it but the highest bit of the
\* register, which belongs to no field.
FieldNames == {"a", "b"}
FieldStartbit(f) == IF f = "a" THEN 0 ELSE 1
FieldWidth(f) == IF f = "a" THEN 1 ELSE RegWidth - 2
FieldResetValue(f) == 1

\* self._endbit = self._startbit + self._width - 1
FieldEndbit(f) == FieldStartbit(f) + FieldWidth(f) - 1

\* The bits of the slice [field.startbit : field.endbit+1].
FieldBits(f) == FieldStartbit(f) .. FieldEndbit(f)

AccessModes == {"r", "w", "rw"}

\* Element.Access.readable(), writable() and does_allow().
Readable(acc) == acc \in {"r", "rw"}
Writable(acc) == acc \in {"w", "rw"}
DoesAllow(acc, other) ==
    /\ Readable(other) => Readable(acc)
    /\ Writable(other) => Writable(acc)

\* Bit i of the integer x.
IntBit(x, i) == (x \div (2 ^ i)) % 2

\* _get_reset_value: the OR of field.reset_value << field.startbit.
ResetValue ==
    [i \in RegBits |->
        IF \E f \in FieldNames : i \in FieldBits(f) /\ IntBit(FieldResetValue(f), i - FieldStartbit(f)) = 1
        THEN 1 ELSE 0]

\* _get_access_bitmask: per bit "1" or "0" as the field's access allows the
\* access or not, and "-" for a bit of no field.
AccessBitmask(facc, acc) ==
    [i \in RegBits |->
        IF \E f \in FieldNames : i \in FieldBits(f)
        THEN LET f == CHOOSE g \in FieldNames : i \in FieldBits(g)
             IN  IF DoesAllow(facc[f], acc) THEN "1" ELSE "0"
        ELSE "-"]

\* The bits that belong to no field: the "-" of _get_access_bitmask.
NoFieldBits == {i \in RegBits : ~(\E f \in FieldNames : i \in FieldBits(f))}

\* The mask with "-" taken as "0": the bits of no field left out.
RwBitmaskFieldsOnly(facc, acc) ==
    [i \in RegBits |-> IF AccessBitmask(facc, acc)[i] = "1" THEN 1 ELSE 0]

\* int(bitmask.replace("-", "1"), 2)
RwBitmask(facc, acc) ==
    [i \in RegBits |-> IF AccessBitmask(facc, acc)[i] = "0" THEN 0 ELSE 1]

\* Mutant: the bus write without the access mask.
GetRwBitmaskedWAll(facc, sv, dat_w) == dat_w

\* _get_rw_bitmasked("w", ...): (csr_obj.s & ~bitmask) | (w_data & bitmask)
GetRwBitmaskedW(facc, sv, dat_w) ==
    [i \in RegBits |-> IF RwBitmask(facc, "w")[i] = 1 THEN dat_w[i] ELSE sv[i]]

\* Mutant: the bus data taken for a field whatever its access.
FieldWMuxAny(facc, f, stb_w, dat_w, sv, i) ==
    IF stb_w THEN dat_w[i] ELSE sv[i]

\* field_w_mux, at bit i of field f: Mux(w_stb, w_data[slice], field.s) for a
\* writable field, field.s otherwise.
FieldWMux(facc, f, stb_w, dat_w, sv, i) ==
    IF Writable(facc[f])
    THEN (IF stb_w THEN dat_w[i] ELSE sv[i])
    ELSE sv[i]

\* The body of "with m.Elif(write_from_logic_by_field)": every field is assigned
\* Mux(field.int_w_stb, field.int_w_data, field_w_mux); field.int_w_data is the
\* field's slice of int_w_data; a bit of no field is not assigned.
RegByField(facc, fstb, dat_int, stb_w, dat_w, sv) ==
    [i \in RegBits |->
        IF \E f \in FieldNames : i \in FieldBits(f)
        THEN LET f == CHOOSE g \in FieldNames : i \in FieldBits(g)
             IN  IF fstb[f] THEN dat_int[i] ELSE FieldWMux(facc, f, stb_w, dat_w, sv, i)
        ELSE sv[i]]

\* Mutant: the reset strobe of the bank left out.
RegResetOwnOnly(rst, bank) == rst

\* Mutant: the reset strobe of the register left out.
RegResetBankOnly(rst, bank) == bank

\* csr_obj.rst_stb | self._bank._reset_strobe
RegReset(rst, bank) == rst \/ bank

\* Mutant: the bus write ahead of the internal writes.
RegisterNextBusFirst(racc, facc, sv, rst, stb_int, dat_int, fstb, stb_w, dat_w) ==
    IF rst THEN ResetValue
    ELSE IF Writable(racc) /\ stb_w THEN GetRwBitmaskedW(facc, sv, dat_w)
    ELSE IF stb_int THEN dat_int
    ELSE IF \E f \in FieldNames : fstb[f]
         THEN RegByField(facc, fstb, dat_int, stb_w, dat_w, sv)
    ELSE sv

\* Mutant: the bus write taken without its strobe.
RegisterNextUnstrobed(racc, facc, sv, rst, stb_int, dat_int, fstb, stb_w, dat_w) ==
    IF rst THEN ResetValue
    ELSE IF stb_int THEN dat_int
    ELSE IF \E f \in FieldNames : fstb[f]
         THEN RegByField(facc, fstb, dat_int, stb_w, dat_w, sv)
    ELSE IF Writable(racc) THEN GetRwBitmaskedW(facc, sv, dat_w)
    ELSE sv

\* The If/Elif chain on csr_obj.s: the value of the register after a clock edge.
RegisterNext(racc, facc, sv, rst, stb_int, dat_int, fstb, stb_w, dat_w) ==
    IF rst THEN ResetValue
    ELSE IF stb_int THEN dat_int
    ELSE IF \E f \in FieldNames : fstb[f]
         THEN RegByField(facc, fstb, dat_int, stb_w, dat_w, sv)
    ELSE IF Writable(racc) /\ stb_w THEN GetRwBitmaskedW(facc, sv, dat_w)
    ELSE sv

\* Mutant: the read data without the access mask.
GetRwBitmaskedRAll(facc, v) == v

\* The read data with the bits of no field forced to 0.
GetRwBitmaskedRFieldsOnly(facc, v) ==
    [i \in RegBits |-> IF AccessBitmask(facc, "r")[i] = "1" THEN v[i] ELSE 0]

\* _get_rw_bitmasked("r", ...): csr_obj.s & bitmask, or reset_value & bitmask
GetRwBitmaskedR(facc, v) ==
    [i \in RegBits |-> IF RwBitmask(facc, "r")[i] = 1 THEN v[i] ELSE 0]

\* Mutant: the read data taken from the register whatever the reset strobes.
RegRDataStored(racc, facc, sv, rst, stb_r) ==
    IF Readable(racc)
    THEN (IF stb_r THEN GetRwBitmaskedR(facc, sv) ELSE ZeroVector)
    ELSE ZeroVector

\* Mutant: the read data driven whether r_stb is asserted or not.
RegRDataUnstrobed(racc, facc, sv, rst, stb_r) ==
    IF Readable(racc)
    THEN (IF rst THEN GetRwBitmaskedR(facc, ResetValue) ELSE GetRwBitmaskedR(facc, sv))
    ELSE ZeroVector

\* The read logic: r_data is r_mux while r_stb is asserted and 0 otherwise;
\* r_mux is the masked reset value under a reset strobe and the masked
\* register otherwise.  A register that is not readable drives no r_data.
RegRData(racc, facc, sv, rst, stb_r) ==
    IF Readable(racc)
    THEN IF stb_r
         THEN (IF rst THEN GetRwBitmaskedR(facc, ResetValue) ELSE GetRwBitmaskedR(facc, sv))
         ELSE ZeroVector
    ELSE ZeroVector

InitReg ==
    /\ phase = "drive"
    /\ RRAbsent /\ ArbAbsent /\ MuxAbsent /\ BridgeAbsent /\ DecoderAbsent /\ SignalsAbsent /\ BankAbsent /\ ConAbsent
    /\ reg_access \in AccessModes
    /\ field_access \in [FieldNames -> AccessModes]
    \* _add_field refuses a field whose access the register's does not allow
    /\ \A f \in FieldNames : DoesAllow(reg_access, field_access[f])
    /\ csr_s = ResetValue
    /\ old_s = csr_s
    /\ rst_stb = FALSE /\ bank_rst_stb = FALSE /\ int_w_stb = FALSE
    /\ field_int_w_stb = [f \in FieldNames |-> FALSE]
    /\ reg_w_stb = FALSE
    /\ reg_w_data = ZeroVector
    /\ int_w_data = ZeroVector
    /\ reg_r_stb = FALSE
    /\ reg_r_data = ZeroVector

\* The environment drives one strobe for the coming clock edge.
RegDriveStrobe ==
    /\ phase = "drive"
    /\ \/ /\ rst_stb' = ~rst_stb
          /\ UNCHANGED <<bank_rst_stb, int_w_stb, field_int_w_stb, reg_w_stb, reg_r_stb>>
       \/ /\ bank_rst_stb' = ~bank_rst_stb
          /\ UNCHANGED <<rst_stb, int_w_stb, field_int_w_stb, reg_w_stb, reg_r_stb>>
       \/ /\ int_w_stb' = ~int_w_stb
          /\ UNCHANGED <<rst_stb, bank_rst_stb, field_int_w_stb, reg_w_stb, reg_r_stb>>
       \/ /\ \E f \in FieldNames :
                field_int_w_stb' = [field_int_w_stb EXCEPT ![f] = ~field_int_w_stb[f]]
          /\ UNCHANGED <<rst_stb, bank_rst_stb, int_w_stb, reg_w_stb, reg_r_stb>>
       \/ /\ reg_w_stb' = ~reg_w_stb
          /\ UNCHANGED <<rst_stb, bank_rst_stb, int_w_stb, field_int_w_stb, reg_r_stb>>
       \/ /\ reg_r_stb' = ~reg_r_stb
          /\ UNCHANGED <<rst_stb, bank_rst_stb, int_w_stb, field_int_w_stb, reg_w_stb>>
    /\ reg_r_data' = RegRData(reg_access, field_access, csr_s,
                              RegReset(rst_stb', bank_rst_stb'), reg_r_stb')
    /\ UNCHANGED <<phase, reg_access, field_access, csr_s, old_s, reg_w_data, int_w_data,
                   rrVars, arbVars, muxVars, brVars, decVars, sigVars, bankVars, conVars>>

\* One clock edge of the register; it samples the two data inputs.
RegTick ==
    /\ phase = "drive"
    /\ \E dat_w \in BitVectors, dat_int \in BitVectors :
          /\ reg_w_data' = dat_w
          /\ int_w_data' = dat_int
          /\ csr_s' = RegisterNext(reg_access, field_access, csr_s,
                                   RegReset(rst_stb, bank_rst_stb), int_w_stb, dat_int,
                                   field_int_w_stb, reg_w_stb, dat_w)
    /\ old_s' = csr_s
    /\ reg_r_data' = RegRData(reg_access, field_access, csr_s',
                              RegReset(rst_stb, bank_rst_stb), reg_r_stb)
    /\ phase' = "edge"
    /\ UNCHANGED <<reg_access, field_access, regStrobes, rrVars, arbVars, muxVars, brVars, decVars, sigVars, bankVars, conVars>>

\* The cycle after a clock edge begins: the strobes stand as they are, and
\* what the edge sampled is no longer kept.
RegNextCycle ==
    /\ phase = "edge"
    /\ phase' = "drive"
    /\ old_s' = csr_s
    /\ reg_w_data' = ZeroVector
    /\ int_w_data' = ZeroVector
    /\ UNCHANGED <<reg_access, field_access, csr_s, regStrobes, reg_r_data,
                   rrVars, arbVars, muxVars, brVars, decVars, sigVars, bankVars, conVars>>

NextReg == RegDriveStrobe \/ RegTick \/ RegNextCycle

SpecReg == InitReg /\ [][NextReg]_vars

(***************************************************************************)
(* csr.dsl under a reset of the clock domain: the register of SpecReg      *)
(* wrapped in a ResetInserter, as the tests wrap it.  The read side is     *)
(* combinatorial and left idle.                                            *)
(***************************************************************************)

OnesVector == [i \in RegBits |-> 1]

\* The data the inputs carry at an edge: all bits 0 or all bits 1.
EdgeData == {ZeroVector, OnesVector}

\* Mutant: the register signal with a domain reset.
CsrResetLessNot == FALSE

\* Signal(..., reset_less=True, name="csr_" + name + "_signal")
CsrResetLess == TRUE

\* A signal driven from the sync domain takes its reset value at an edge with
\* the domain's reset high unless it is reset_less; otherwise its logic rules.
DomainReset(reset_less, rst, resetval, nxt) ==
    IF rst /\ ~reset_less THEN resetval ELSE nxt

InitDomReset ==
    /\ phase = "drive"
    /\ RRAbsent /\ ArbAbsent /\ MuxAbsent /\ BridgeAbsent /\ DecoderAbsent /\ SignalsAbsent /\ ConAbsent
    /\ BankAbsent
    /\ reg_access \in AccessModes
    /\ field_access \in [FieldNames -> AccessModes]
    /\ \A f \in FieldNames : DoesAllow(reg_access, field_access[f])
    /\ csr_s = ResetValue
    /\ old_s = csr_s
    /\ rst_stb = FALSE /\ bank_rst_stb = FALSE /\ int_w_stb = FALSE
    /\ field_int_w_stb = [f \in FieldNames |-> FALSE]
    /\ reg_w_stb = FALSE
    /\ reg_w_data = ZeroVector
    /\ int_w_data = ZeroVector
    /\ reg_r_stb = FALSE
    /\ reg_r_data = ZeroVector

\* The environment drives one strobe, or the domain's reset, for the coming edge.
DomDrive ==
    /\ \/ /\ rst_stb' = ~rst_stb
          /\ UNCHANGED <<bank_rst_stb, int_w_stb, field_int_w_stb, reg_w_stb, dom_rst>>
       \/ /\ bank_rst_stb' = ~bank_rst_stb
          /\ UNCHANGED <<rst_stb, int_w_stb, field_int_w_stb, reg_w_stb, dom_rst>>
       \/ /\ int_w_stb' = ~int_w_stb
          /\ UNCHANGED <<rst_stb, bank_rst_stb, field_int_w_stb, reg_w_stb, dom_rst>>
       \/ /\ \E f \in FieldNames :
                field_int_w_stb' = [field_int_w_stb EXCEPT ![f] = ~field_int_w_stb[f]]
          /\ UNCHANGED <<rst_stb, bank_rst_stb, int_w_stb, reg_w_stb, dom_rst>>
       \/ /\ reg_w_stb' = ~reg_w_stb
          /\ UNCHANGED <<rst_stb, bank_rst_stb, int_w_stb, field_int_w_stb, dom_rst>>
       \/ /\ dom_rst' = ~dom_rst
          /\ UNCHANGED <<rst_stb, bank_rst_stb, int_w_stb, field_int_w_stb, reg_w_stb>>
    /\ phase' = "drive"
    /\ UNCHANGED <<reg_access, field_access, csr_s, old_s, reg_r_stb, reg_w_data, int_w_data,
                   reg_r_data, reg2_s, reg2_rst_stb, reg2_int_w_stb, reg2_w_stb,
                   rrVars, arbVars, muxVars, brVars, decVars, sigVars, conVars>>

\* One clock edge of the register inside the ResetInserter.
DomTick ==
    /\ \E dat_w \in EdgeData, dat_int \in EdgeData :
          csr_s' = DomainReset(CsrResetLess, dom_rst, ResetValue,
                               RegisterNext(reg_access, field_access, csr_s,
                                            RegReset(rst_stb, bank_rst_stb), int_w_stb, dat_int,
                                            field_int_w_stb, reg_w_stb, dat_w))
    /\ old_s' = csr_s
    /\ phase' = "edge"
    /\ UNCHANGED <<reg_access, field_access, regStrobes, reg_w_data, int_w_data, reg_r_data,
                   bankVars, rrVars, arbVars, muxVars, brVars, decVars, sigVars, conVars>>

NextDomReset == DomDrive \/ DomTick

SpecDomReset == InitDomReset /\ [][NextDomReset]_vars

(***************************************************************************)
(* csr.dsl.Bank: two registers elaborated by Bank.elaborate, which share   *)
(* the reset strobe of the bank.  The second register has no field-wise    *)
(* internal writes.  elem.w_stb comes from the bank's bus, which addresses *)
(* one register at a time.                                                 *)
(***************************************************************************)

\* The access of the second register and of its fields.
Reg2Access == "rw"
Reg2FieldAccess == [f \in FieldNames |-> "rw"]

InitBank ==
    /\ phase = "drive"
    /\ RRAbsent /\ ArbAbsent /\ MuxAbsent /\ BridgeAbsent /\ DecoderAbsent /\ SignalsAbsent /\ ConAbsent
    /\ dom_rst = FALSE
    /\ reg_access = "rw"
    /\ field_access = [f \in FieldNames |-> IF f = "a" THEN "rw" ELSE "r"]
    /\ csr_s = ResetValue /\ old_s = csr_s
    /\ reg2_s = ResetValue
    /\ rst_stb = FALSE /\ bank_rst_stb = FALSE /\ int_w_stb = FALSE
    /\ field_int_w_stb = [f \in FieldNames |-> FALSE]
    /\ reg_w_stb = FALSE
    /\ reg2_rst_stb = FALSE /\ reg2_int_w_stb = FALSE /\ reg2_w_stb = FALSE
    /\ reg_w_data = ZeroVector
    /\ int_w_data = ZeroVector
    /\ reg_r_stb = FALSE
    /\ reg_r_data = ZeroVector

\* The environment drives one strobe of the bank for the coming edge.
BankDrive ==
    /\ \/ /\ rst_stb' = ~rst_stb
          /\ UNCHANGED <<bank_rst_stb, int_w_stb, field_int_w_stb, reg_w_stb,
                         reg2_rst_stb, reg2_int_w_stb, reg2_w_stb>>
       \/ /\ reg2_rst_stb' = ~reg2_rst_stb
          /\ UNCHANGED <<rst_stb, bank_rst_stb, int_w_stb, field_int_w_stb, reg_w_stb,
                         reg2_int_w_stb, reg2_w_stb>>
       \/ /\ bank_rst_stb' = ~bank_rst_stb
          /\ UNCHANGED <<rst_stb, int_w_stb, field_int_w_stb, reg_w_stb,
                         reg2_rst_stb, reg2_int_w_stb, reg2_w_stb>>
       \/ /\ int_w_stb' = ~int_w_stb
          /\ UNCHANGED <<rst_stb, bank_rst_stb, field_int_w_stb, reg_w_stb,
                         reg2_rst_stb, reg2_int_w_stb, reg2_w_stb>>
       \/ /\ reg2_int_w_stb' = ~reg2_int_w_stb
          /\ UNCHANGED <<rst_stb, bank_rst_stb, int_w_stb, field_int_w_stb, reg_w_stb,
                         reg2_rst_stb, reg2_w_stb>>
       \/ /\ \E f \in FieldNames :
                field_int_w_stb' = [field_int_w_stb EXCEPT ![f] = ~field_int_w_stb[f]]
          /\ UNCHANGED <<rst_stb, bank_rst_stb, int_w_stb, reg_w_stb,
                         reg2_rst_stb, reg2_int_w_stb, reg2_w_stb>>
       \/ /\ reg_w_stb' = ~reg_w_stb
          /\ ~(reg_w_stb' /\ reg2_w_stb)
          /\ UNCHANGED <<rst_stb, bank_rst_stb, int_w_stb, field_int_w_stb,
                         reg2_rst_stb, reg2_int_w_stb, reg2_w_stb>>
       \/ /\ reg2_w_stb' = ~reg2_w_stb
          /\ ~(reg2_w_stb' /\ reg_w_stb)
          /\ UNCHANGED <<rst_stb, bank_rst_stb, int_w_stb, field_int_w_stb, reg_w_stb,
                         reg2_rst_stb, reg2_int_w_stb>>
    /\ phase' = "drive"
    /\ UNCHANGED <<reg_access, field_access, csr_s, old_s, reg_r_stb, reg_w_data, int_w_data,
                   reg_r_data, dom_rst, reg2_s,
                   rrVars, arbVars, muxVars, brVars, decVars, sigVars, conVars>>

\* One clock edge of the bank: every register goes through the same chain; the
\* bus write data is shared, the internal write data is the register's own.
BankTick ==
    /\ \E dat_w \in EdgeData, dat_int \in EdgeData, dat_int2 \in EdgeData :
          /\ csr_s' = RegisterNext(reg_access, field_access, csr_s,
                                   RegReset(rst_stb, bank_rst_stb), int_w_stb, dat_int,
                                   field_int_w_stb, reg_w_stb, dat_w)
          /\ reg2_s' = RegisterNext(Reg2Access, Reg2FieldAccess, reg2_s,
                                    RegReset(reg2_rst_stb, bank_rst_stb), reg2_int_w_stb,
                                    dat_int2, [f \in FieldNames |-> FALSE], reg2_w_stb, dat_w)
    /\ phase' = "edge"
    /\ UNCHANGED <<reg_access, field_access, old_s, regStrobes, reg_w_data, int_w_data,
                   reg_r_data, dom_rst, reg2_rst_stb, reg2_int_w_stb, reg2_w_stb,
                   rrVars, arbVars, muxVars, brVars, decVars, sigVars, conVars>>

NextBank == BankDrive \/ BankTick

SpecBank == InitBank /\ [][NextBank]_vars

(***************************************************************************)
(* csr.wishbone.WishboneCSRBridge: a Wishbone access of br_n CSR-wide      *)
(* lanes is served one lane per clock cycle.                               *)
(***************************************************************************)

\* The ratio of the data widths is a power of two of at most this exponent.
MaxLogRatio == 2

Pow2(e) == 2^e

\* len(wb_bus.sel) = wb_bus.data_width // wb_bus.granularity.
BridgeRatios == {Pow2(e) : e \in 0..MaxLogRatio}

\* The lanes of wb_bus.sel.
Lanes(k) == 0..(k - 1)

\* counter after a clock edge without the Switch on the counter: lanes whose
\* sel bit is 0 are skipped.
BridgeCounterNextSkip(k, cs, sel, c) ==
    IF cs
    THEN IF c < k
         THEN IF \E l \in Lanes(k) : l >= c /\ l \in sel
              THEN (CHOOSE l \in Lanes(k) : l >= c /\ l \in sel
                                            /\ \A j \in Lanes(k) : (j >= c /\ j \in sel) => l <= j) + 1
              ELSE k
         ELSE IF c = k THEN k + 1 ELSE c
    ELSE 0

\* counter after a clock edge: Case(index) sets index + 1, Case(len(sel)) sets
\* len(sel) + 1, the value len(sel) + 1 matches no Case, and the Else branch
\* clears the counter.
\* The counter without the Else branch: it holds while cyc & stb is low.
BridgeCounterNextHold(k, cs, sel, c) ==
    IF cs THEN IF c < k THEN c + 1 ELSE IF c = k THEN k + 1 ELSE c
    ELSE c

BridgeCounterNext(k, cs, sel, c) ==
    IF cs
    THEN IF c < k THEN c + 1
         ELSE IF c = k THEN k + 1 ELSE c
    ELSE 0

\* wb_bus.ack after a clock edge without the trailing If(wb_bus.ack).
BridgeAckNextSticky(k, cs, c, ack) ==
    IF cs /\ c = k THEN TRUE ELSE ack

\* wb_bus.ack after a clock edge: Case(len(sel)) sets it, and the trailing
\* If(wb_bus.ack), the later assignment, clears it.
BridgeAckNext(k, cs, c, ack) ==
    IF ack THEN FALSE
    ELSE IF cs /\ c = k THEN TRUE ELSE ack

\* csr_bus.r_stb: sel_index & ~wb_bus.we in the Case of the counter's lane.
BridgeRStb(k, cs, c, sel, we) == cs /\ c < k /\ c \in sel /\ ~we

\* csr_bus.w_stb: sel_index & wb_bus.we in the Case of the counter's lane.
BridgeWStb(k, cs, c, sel, we) == cs /\ c < k /\ c \in sel /\ we

\* The values of wb_bus.adr.
BridgeAdrs == 0 .. 1

\* The values of wb_bus.dat_w: all slices 0, or the slices alternating between
\* 0 and 1, which tells every lane from its neighbours.
BridgeDatW(k) ==
    {[l \in Lanes(k) |-> 0]} \cup {[l \in Lanes(k) |-> (l + m) % 2] : m \in 0 .. 1}

\* csr_bus.addr: Cat(*sel_addr, wb_bus.adr) in the Case of the counter's lane,
\* sel_addr being the log2(len(sel)) bits of the lane index, lowest first.
BridgeAddr(k, cs, c, adr) == IF cs /\ c < k THEN (c % k) + adr * k ELSE 0

\* csr_bus.w_data taken from the first slice in every lane.
BridgeWDataFirst(k, cs, c, dat) == IF cs /\ c < k THEN dat[0] ELSE 0

\* csr_bus.w_data: wb_bus.dat_w[segment(index)] in the Case of the counter's lane.
BridgeWData(k, cs, c, dat) == IF cs /\ c < k THEN dat[c] ELSE 0

\* The combinatorial outputs follow the inputs and the counter.
BridgeSettle(cyc, stb_i, we, sel, adr, dat, c) ==
    /\ br_r_stb' = BridgeRStb(br_n, cyc /\ stb_i, c, sel, we)
    /\ br_w_stb' = BridgeWStb(br_n, cyc /\ stb_i, c, sel, we)
    /\ br_csr_addr' = BridgeAddr(br_n, cyc /\ stb_i, c, adr)
    /\ br_csr_w_data' = BridgeWData(br_n, cyc /\ stb_i, c, dat)

InitBridge ==
    /\ phase = "drive"
    /\ br_n \in BridgeRatios
    /\ br_cyc = FALSE /\ br_stb = FALSE /\ br_we = FALSE /\ br_sel = {}
    /\ br_adr = 0 /\ br_dat_w = [l \in Lanes(br_n) |-> 0]
    /\ br_csr_addr = 0 /\ br_csr_w_data = 0
    /\ br_counter = 0 /\ br_ack = FALSE /\ br_r_stb = FALSE /\ br_w_stb = FALSE
    /\ old_ack = FALSE /\ old_counter = 0 /\ br_elapsed = 0 /\ br_acks = 0
    /\ RRAbsent /\ ArbAbsent /\ MuxAbsent /\ RegAbsent /\ DecoderAbsent /\ SignalsAbsent /\ BankAbsent /\ ConAbsent

\* The Wishbone initiator drives one of its signals between two clock edges.
BridgeDrive ==
    /\ \/ /\ br_cyc' = ~br_cyc
          /\ UNCHANGED <<br_stb, br_we, br_sel, br_adr, br_dat_w>>
       \/ /\ br_stb' = ~br_stb
          /\ UNCHANGED <<br_cyc, br_we, br_sel, br_adr, br_dat_w>>
       \/ /\ br_we' = ~br_we
          /\ UNCHANGED <<br_cyc, br_stb, br_sel, br_adr, br_dat_w>>
       \/ /\ \E l \in Lanes(br_n) :
                br_sel' = IF l \in br_sel THEN br_sel \ {l} ELSE br_sel \cup {l}
          /\ UNCHANGED <<br_cyc, br_stb, br_we, br_adr, br_dat_w>>
       \/ /\ br_adr' \in BridgeAdrs \ {br_adr}
          /\ UNCHANGED <<br_cyc, br_stb, br_we, br_sel, br_dat_w>>
       \/ /\ br_dat_w' \in BridgeDatW(br_n) \ {br_dat_w}
          /\ UNCHANGED <<br_cyc, br_stb, br_we, br_sel, br_adr>>
    /\ BridgeSettle(br_cyc', br_stb', br_we', br_sel', br_adr', br_dat_w', br_counter)
    /\ phase' = "drive"
    /\ UNCHANGED <<br_n, br_counter, br_ack, old_ack, old_counter, br_elapsed, br_acks,
                   rrVars, arbVars, muxVars, regVars, decVars, sigVars, bankVars, conVars>>

\* One clock edge of the bridge.
BridgeTick ==
    LET cs == br_cyc /\ br_stb IN
    /\ br_counter' = BridgeCounterNext(br_n, cs, br_sel, br_counter)
    /\ br_ack' = BridgeAckNext(br_n, cs, br_counter, br_ack)
    /\ old_ack' = br_ack
    /\ old_counter' = br_counter
    /\ br_elapsed' = IF ~cs THEN 0
                     ELSE IF br_counter = 0 THEN 1
                     ELSE IF br_elapsed > br_n + 1 THEN br_elapsed
                     ELSE br_elapsed + 1
    /\ br_acks' = IF ~cs THEN 0
                  ELSE IF br_ack' /\ br_acks < 2 THEN br_acks + 1
                  ELSE br_acks
    /\ BridgeSettle(br_cyc, br_stb, br_we, br_sel, br_adr, br_dat_w, br_counter')
    /\ phase' = "edge"
    /\ UNCHANGED <<br_n, brIn, rrVars, arbVars, muxVars, regVars, decVars, sigVars, bankVars, conVars>>

NextBridge == BridgeDrive \/ BridgeTick

SpecBridge == InitBridge /\ [][NextBridge]_vars

(***************************************************************************)
(* wishbone.Decoder: an address decoder for two subordinate buses.         *)
(* Addresses are in units of the decoder's data width, as bus.adr is.      *)
(***************************************************************************)

\* The subordinate buses have an address of at most this many bits.
MaxSubAddrWidth == 2

\* The width of bus.adr; the decoded address space is larger than a window.
DecAddrWidth == MaxSubAddrWidth + 2

DecAddrs == 0..(Pow2(DecAddrWidth) - 1)

\* The subordinates, in the order of their add() calls.
Subs == {1, 2}

\* The optional outputs a subordinate has: as in the decoder's test, the
\* first one has none and the second one has them all.
SubFeatures(i) == IF i = 1 THEN {} ELSE {"err", "rty"}

\* The ratios of the decoder's granularity to a subordinate's.
SubRatios == {1, 2}

\* A dense window: its subordinate has the decoder's data width, so the window
\* holds 2^addr_width addresses, and it starts at a multiple of its size.
Windows ==
    {w \in [start : DecAddrs, addr_width : 1..MaxSubAddrWidth, ratio : SubRatios] :
        w.start % Pow2(w.addr_width) = 0}

WindowEnd(w) == w.start + Pow2(w.addr_width)

InWindow(a, w) == w.start <= a /\ a < WindowEnd(w)

\* The windows of sibling subordinates do not overlap.  The first subordinate
\* has the decoder's granularity and the widest address, and lies below the
\* second one.
Layouts ==
    {l \in [Subs -> Windows] :
        /\ l[1].addr_width = MaxSubAddrWidth /\ l[1].ratio = 1
        /\ WindowEnd(l[1]) <= l[2].start}

\* Bit j of an address.
AdrBit(a, j) == (a \div Pow2(j)) % 2

\* MemoryMap.window_patterns(): the pattern of a window, most significant bit
\* first: the bits of the start above the window's size, then don't-cares.
WindowPattern(w) ==
    [p \in 1..DecAddrWidth |->
        IF DecAddrWidth - p < w.addr_width THEN "-"
        ELSE IF AdrBit(w.start, DecAddrWidth - p) = 1 THEN "1" ELSE "0"]

\* The subordinates with the Case patterns of their windows, as the for loop
\* over window_patterns() sees them.
WithPatterns(l) ==
    [i \in Subs |-> [start |-> l[i].start, addr_width |-> l[i].addr_width,
                     ratio |-> l[i].ratio, pattern |-> WindowPattern(l[i])]]

\* Case(pattern) of Switch(bus.adr).
CaseMatches(pat, a) ==
    \A p \in 1..DecAddrWidth :
        \/ pat[p] = "-"
        \/ pat[p] = (IF AdrBit(a, DecAddrWidth - p) = 1 THEN "1" ELSE "0")

\* The subordinate whose Case the Switch takes: the first that matches; 0 when
\* none does.
DecSelected(l, a) ==
    IF CaseMatches(l[1].pattern, a) THEN 1
    ELSE IF CaseMatches(l[2].pattern, a) THEN 2
    ELSE 0

\* sub_bus.cyc driven like sub_bus.stb, outside the Case.
DecSubCycUngated(sel, cyc, i) == cyc

\* sub_bus.cyc, where sel is the subordinate whose Case is taken: bus.cyc
\* inside the subordinate's Case, 0 outside.
DecSubCyc(sel, cyc, i) == IF sel = i THEN cyc ELSE FALSE

\* sub_bus.adr without the shift.
DecSubAdrNoShift(l, a, i) == a % Pow2(l[i].addr_width)

\* sub_bus.adr: bus.adr << log2_int(sub_ratio), assigned outside the Case and
\* truncated to the width of sub_bus.adr.
DecSubAdr(l, a, i) == (a * l[i].ratio) % Pow2(l[i].addr_width)

\* bus.dat_r as a fan-in over all subordinates.
DecDatRFanin(sel, dat) == IF \E i \in Subs : dat[i] = 1 THEN 1 ELSE 0

\* bus.dat_r: sub_bus.dat_r inside the subordinate's Case, 0 when no Case is taken.
DecDatR(sel, dat) == IF sel = 0 THEN 0 ELSE dat[sel]

\* ack_fanin: the OR of sub_bus.ack over all subordinates.
DecAck(ack) == \E i \in Subs : ack[i]

\* err_fanin, rty_fanin: the OR over the subordinates that have the output.
DecOpt(name, out) == \E i \in Subs : name \in SubFeatures(i) /\ out[i]

\* The combinatorial outputs follow the inputs.
DecSettle(a, cyc, ack, err, rty, dat) ==
    LET sel == DecSelected(dec_windows, a) IN
    /\ sub_cyc' = [i \in Subs |-> DecSubCyc(sel, cyc, i)]
    /\ sub_adr' = [i \in Subs |-> DecSubAdr(dec_windows, a, i)]
    /\ dec_ack' = DecAck(ack)
    /\ dec_err' = DecOpt("err", err)
    /\ dec_rty' = DecOpt("rty", rty)
    /\ dec_dat_r' = DecDatR(sel, dat)

InitDecoder ==
    /\ phase = "drive"
    /\ dec_windows \in {WithPatterns(l) : l \in Layouts}
    /\ dec_adr = 0 /\ dec_cyc = FALSE
    /\ sub_ack = [i \in Subs |-> FALSE]
    /\ sub_err = [i \in Subs |-> FALSE]
    /\ sub_rty = [i \in Subs |-> FALSE]
    /\ sub_dat_r = [i \in Subs |-> 0]
    /\ sub_cyc = [i \in Subs |-> FALSE]
    /\ sub_adr = [i \in Subs |-> 0]
    /\ dec_ack = FALSE /\ dec_err = FALSE /\ dec_rty = FALSE /\ dec_dat_r = 0
    /\ RRAbsent /\ ArbAbsent /\ MuxAbsent /\ RegAbsent /\ BridgeAbsent /\ SignalsAbsent /\ BankAbsent /\ ConAbsent

\* The initiator drives one bit of bus.adr, or bus.cyc.
DecDriveBus ==
    /\ \/ /\ \E j \in 0..(DecAddrWidth - 1) :
                dec_adr' = IF AdrBit(dec_adr, j) = 1 THEN dec_adr - Pow2(j)
                           ELSE dec_adr + Pow2(j)
          /\ UNCHANGED dec_cyc
       \/ /\ dec_cyc' = ~dec_cyc
          /\ UNCHANGED dec_adr
    /\ DecSettle(dec_adr', dec_cyc', sub_ack, sub_err, sub_rty, sub_dat_r)
    /\ UNCHANGED <<phase, dec_windows, sub_ack, sub_err, sub_rty, sub_dat_r,
                   rrVars, arbVars, muxVars, regVars, brVars, sigVars, bankVars, conVars>>

\* A subordinate, selected or not, drives one of the outputs it has.
DecDriveSub ==
    /\ \E i \in Subs :
          \/ /\ sub_ack' = [sub_ack EXCEPT ![i] = ~sub_ack[i]]
             /\ UNCHANGED <<sub_err, sub_rty, sub_dat_r>>
          \/ /\ "err" \in SubFeatures(i)
             /\ sub_err' = [sub_err EXCEPT ![i] = ~sub_err[i]]
             /\ UNCHANGED <<sub_ack, sub_rty, sub_dat_r>>
          \/ /\ "rty" \in SubFeatures(i)
             /\ sub_rty' = [sub_rty EXCEPT ![i] = ~sub_rty[i]]
             /\ UNCHANGED <<sub_ack, sub_err, sub_dat_r>>
          \/ /\ sub_dat_r' = [sub_dat_r EXCEPT ![i] = 1 - sub_dat_r[i]]
             /\ UNCHANGED <<sub_ack, sub_err, sub_rty>>
    /\ DecSettle(dec_adr, dec_cyc, sub_ack', sub_err', sub_rty', sub_dat_r')
    /\ UNCHANGED <<phase, dec_windows, dec_adr, dec_cyc,
                   rrVars, arbVars, muxVars, regVars, brVars, sigVars, bankVars, conVars>>

NextDecoder == DecDriveBus \/ DecDriveSub

SpecDecoder == InitDecoder /\ [][NextDecoder]_vars

(***************************************************************************)
(* csr.dsl._RegisterBuilder: fields are attached to a register one         *)
(* _add_field call at a time.  A field of the register is a record of its  *)
(* name, start bit, end bit and access mode; the argument of a call has    *)
(* startbit None (auto) or a number, a width, and access None ("none") or  *)
(* a mode.                                                                 *)
(***************************************************************************)

\* Explicit start bits are at most this.
MaxStartbit == 1

\* Field.width of the fields attached.
FieldWidths == 1 .. 2

\* The register's fixed width, when it has one.
BuilderWidth == MaxStartbit + 1

\* _add_field is not called again once _bitcount has passed this.
MaxBitcount == MaxStartbit + 2

BuilderFieldNames == {"a", "b"}

\* The Field objects handed to _add_field.
FieldArgs ==
    {f \in [name : BuilderFieldNames, auto : BOOLEAN, startbit : 0 .. MaxStartbit,
            width : FieldWidths, access : {"none"} \cup AccessModes] :
        f.auto => f.startbit = 0}

Max2(x, y) == IF x >= y THEN x ELSE y
Min2(x, y) == IF x <= y THEN x ELSE y

\* _is_bit_overlapping with ranges that merely touch taken as disjoint.
IsBitOverlappingOpen(startbit, endbit, bitrange_list) ==
    \E bitrange \in bitrange_list :
        Max2(0, Min2(endbit, bitrange[2]) - Max2(startbit, bitrange[1])) # 0

\* _is_bit_overlapping: some range of the list shares a bit with
\* [startbit, endbit].
IsBitOverlapping(startbit, endbit, bitrange_list) ==
    \E bitrange \in bitrange_list :
        Max2(0, Min2(endbit, bitrange[2]) - Max2(startbit, bitrange[1]) + 1) # 0

\* The start and end bit of the field of a call: a field without a start bit
\* is placed at _bitcount.
ArgStartbit(b, f) == IF f.auto THEN b.bitcount ELSE f.startbit
ArgEndbit(b, f) == ArgStartbit(b, f) + f.width - 1

\* The access check of _add_field, passing every declared access.
AccessRaisesNever(racc, facc) == FALSE

\* _add_field raises for a declared access that the register's does not allow.
AccessRaises(racc, facc) == facc # "none" /\ ~DoesAllow(racc, facc)

\* _add_field(field) on the register b: the exception raised ("" for none)
\* and the register after the call.  _bitcount is assigned after the overlap
\* check and before the width and access checks.
AddFieldResult(b, f) ==
    LET startbit == ArgStartbit(b, f)
        endbit == ArgEndbit(b, f)
        bitcount == IF endbit > b.bitcount - 1 THEN endbit + 1 ELSE b.bitcount
        counted == [b EXCEPT !.bitcount = bitcount]
    IN  IF \E g \in b.fields : g.name = f.name
        THEN [raised |-> "NameError", reg |-> b]
        ELSE IF IsBitOverlapping(startbit, endbit, {<<g.startbit, g.endbit>> : g \in b.fields})
        THEN [raised |-> "AttributeError: occupied", reg |-> b]
        ELSE IF b.fixed /\ bitcount > b.width
        THEN [raised |-> "AttributeError: width", reg |-> counted]
        ELSE IF AccessRaises(b.access, f.access)
        THEN [raised |-> "AttributeError: access", reg |-> counted]
        ELSE [raised |-> "",
              reg |-> [counted EXCEPT !.fields = @ \cup
                          {[name |-> f.name, startbit |-> startbit, endbit |-> endbit,
                            access |-> IF f.access = "none" THEN b.access ELSE f.access]}]]

\* __len__: _bitcount, or the fixed width.
BuilderLen(b) == IF b.fixed THEN b.width ELSE b.bitcount

\* A register without fields, of any access mode, with a fixed width or not.
InitBuilder ==
    /\ phase = "drive"
    /\ RRAbsent /\ ArbAbsent /\ MuxAbsent /\ RegAbsent /\ BridgeAbsent /\ DecoderAbsent
    /\ SignalsAbsent /\ BankAbsent /\ MapAbsent /\ SramAbsent /\ BankBuildAbsent /\ WatchAbsent
    /\ \E acc \in AccessModes, fixed \in BOOLEAN :
           reg_builder = [access |-> acc, fixed |-> fixed,
                          width |-> IF fixed THEN BuilderWidth ELSE 0,
                          fields |-> {}, bitcount |-> 0]
    /\ add_field = <<>>

\* One call of _add_field.
AddField ==
    /\ reg_builder.bitcount <= MaxBitcount
    /\ \E f \in FieldArgs :
           LET res == AddFieldResult(reg_builder, f)
           IN  /\ reg_builder' = res.reg
               /\ add_field' = <<[field |-> f, raised |-> res.raised, before |-> reg_builder]>>
    /\ UNCHANGED <<phase, rrVars, arbVars, muxVars, regVars, brVars, decVars, sigVars, bankVars,
                   dec_map, dec_call, sram_bus, sram_old, bank_build, arb_watch>>

NextBuilder == AddField

SpecBuilder == InitBuilder /\ [][NextBuilder]_vars

(***************************************************************************)
(* wishbone.Decoder under construction: add() validates a subordinate bus  *)
(* and hands its memory map to MemoryMap.add_window; align_to() moves the  *)
(* implicit address of the next window.  Addresses are in units of the     *)
(* decoder's granularity, as in the decoder's memory map.                  *)
(***************************************************************************)

\* The decoder of DecoderTestCase.setUp.
DecDataWidth == 32
DecGranularity == 16

\* The address width of the decoder's memory map.
DecMapAddrWidth == MaxSubAddrWidth + 3

\* add() is called twice on one decoder, as in test_add_align_to.
MaxAdds == 2

\* The optional outputs that Decoder.add looks at.
OptOutputs == {"err", "rty", "stall"}

\* The data width and granularity of the subordinate buses of
\* DecoderTestCase, and of one with half the decoder's granularity.
SubWidths == {<<32, 16>>, <<32, 32>>, <<16, 16>>, <<64, 16>>, <<32, 8>>}

\* The subordinate buses handed to add(): wishbone.Interface objects.
SubBuses ==
    {s \in [addr_width : 1 .. MaxSubAddrWidth, data_width : {16, 32, 64},
            granularity : {8, 16, 32}, features : {{}, {"err"}, {"rty", "stall"}}] :
        <<s.data_width, s.granularity>> \in SubWidths}

\* The explicit addresses given to add().
ExplicitAddrs == {0, 4, 8}

Log2Int(x) == CHOOSE e \in 0 .. 6 : 2 ^ e = x

\* Interface.__init__: the address width of the subordinate's memory map, whose
\* data width is the subordinate's granularity.
SubMapAddrWidth(s) == Max2(1, s.addr_width + Log2Int(s.data_width \div s.granularity))

\* MemoryMap.add_window: a dense window has the ratio of the data widths of
\* the two memory maps, a sparse window has ratio 1.
WindowRatio(s, sparse) == IF sparse THEN 1 ELSE DecGranularity \div s.granularity

WindowSize(s, sparse) == (2 ^ SubMapAddrWidth(s)) \div WindowRatio(s, sparse)

\* The smallest multiple of k that is at least a.
RoundUp(a, k) == ((a + k - 1) \div k) * k

\* MemoryMap.align_to keeping the implicit address where it is.
MapAlignToStay(m, alignment) == m

\* MemoryMap.align_to(alignment): the implicit next address moves up to a
\* multiple of 2 ** alignment.
MapAlignTo(m, alignment) == [m EXCEPT !.next_addr = RoundUp(@, 2 ^ alignment)]

\* Two address ranges [start, end) share an address.
WindowsOverlap(v, w) == v.start < w.end /\ w.start < v.end

\* MemoryMap.add_window without the test for overlapping windows.
MapAddWindowUnchecked(m, id, size, ratio, has_addr, addr) ==
    LET start == IF has_addr THEN addr ELSE RoundUp(m.next_addr, 2 ^ m.alignment)
        w == [sub |-> id, start |-> start, end |-> start + size, ratio |-> ratio]
    IN  [raised |-> "", ret |-> <<w.start, w.end, w.ratio>>,
         map |-> [m EXCEPT !.windows = Append(@, w), !.next_addr = w.end]]

\* MemoryMap.add_window: the window starts at the explicit address, or at the
\* implicit next address rounded up to the alignment of the map; a window that
\* overlaps one of the map raises; the implicit next address becomes the end of
\* the window.
MapAddWindow(m, id, size, ratio, has_addr, addr) ==
    LET start == IF has_addr THEN addr ELSE RoundUp(m.next_addr, 2 ^ m.alignment)
        w == [sub |-> id, start |-> start, end |-> start + size, ratio |-> ratio]
    IN  IF \E i \in 1 .. Len(m.windows) : WindowsOverlap(w, m.windows[i])
        THEN [raised |-> "ValueError: overlap", ret |-> <<>>, map |-> m]
        ELSE [raised |-> "", ret |-> <<w.start, w.end, w.ratio>>,
              map |-> [m EXCEPT !.windows = Append(@, w), !.next_addr = w.end]]

\* The checks of Decoder.add with the one of the optional outputs left out.
AddRaisesUnchecked(feats, s, sparse) ==
    IF s.granularity > DecGranularity THEN "ValueError: granularity"
    ELSE IF ~sparse /\ s.data_width # DecDataWidth THEN "ValueError: dense"
    ELSE IF sparse /\ s.granularity # s.data_width THEN "ValueError: sparse"
    ELSE ""

\* The checks of Decoder.add, in their order: what add raises before it
\* touches the decoder ("" for nothing).
AddRaises(feats, s, sparse) ==
    IF s.granularity > DecGranularity THEN "ValueError: granularity"
    ELSE IF ~sparse /\ s.data_width # DecDataWidth THEN "ValueError: dense"
    ELSE IF sparse /\ s.granularity # s.data_width THEN "ValueError: sparse"
    ELSE IF \E opt_output \in OptOutputs : opt_output \in s.features /\ opt_output \notin feats
    THEN "ValueError: optional output"
    ELSE ""

\* Decoder.add(sub_bus, addr=, sparse=) for the id-th subordinate: the
\* exception raised, the value returned and the decoder after the call.
\* _subs gets its entry before add_window is called.
DecoderAdd(m, id, s, has_addr, addr, sparse) ==
    LET raised == AddRaises(m.features, s, sparse)
        counted == [m EXCEPT !.adds = id]
    IN  IF raised # ""
        THEN [raised |-> raised, ret |-> <<>>, map |-> counted]
        ELSE MapAddWindow([counted EXCEPT !.subs = @ \cup {id}], id,
                          WindowSize(s, sparse), WindowRatio(s, sparse), has_addr, addr)

\* A decoder without windows, with or without the optional signals, with
\* alignment 0 or 1.
InitMap ==
    /\ phase = "drive"
    /\ RRAbsent /\ ArbAbsent /\ MuxAbsent /\ RegAbsent /\ BridgeAbsent /\ DecoderAbsent
    /\ SignalsAbsent /\ BankAbsent /\ BuilderAbsent /\ SramAbsent /\ BankBuildAbsent /\ WatchAbsent
    /\ \E feats \in {{}, OptOutputs}, alignment \in 0 .. 1 :
           dec_map = [features |-> feats, alignment |-> alignment, windows |-> <<>>,
                      subs |-> {}, next_addr |-> 0, adds |-> 0]
    /\ dec_call = <<>>

\* One call of add() with a subordinate bus not added before, whose window
\* lies in the address space of the decoder.
MapAdd ==
    /\ dec_map.adds < MaxAdds
    /\ \E s \in SubBuses, has_addr \in BOOLEAN, addr \in ExplicitAddrs, sparse \in BOOLEAN :
           LET res == DecoderAdd(dec_map, dec_map.adds + 1, s, has_addr, addr, sparse)
           IN  /\ ~has_addr => addr = 0
               /\ has_addr => addr % (2 ^ dec_map.alignment) = 0
               /\ res.map.next_addr <= 2 ^ DecMapAddrWidth
               /\ dec_map' = res.map
               /\ dec_call' = <<[op |-> "add", sub |-> s, has_addr |-> has_addr, addr |-> addr,
                                 sparse |-> sparse, raised |-> res.raised, ret |-> res.ret,
                                 before |-> dec_map]>>
    /\ UNCHANGED <<phase, rrVars, arbVars, muxVars, regVars, brVars, decVars, sigVars, bankVars,
                   reg_builder, add_field, sram_bus, sram_old, bank_build, arb_watch>>

\* One call of align_to().
MapAlign ==
    /\ \E alignment \in 1 .. (DecMapAddrWidth - 1) :
           LET m == MapAlignTo(dec_map, alignment)
           IN  /\ m.next_addr <= 2 ^ DecMapAddrWidth
               /\ dec_map' = m
               /\ dec_call' = <<[op |-> "align_to", alignment |-> alignment,
                                 ret |-> <<m.next_addr>>, raised |-> "", before |-> dec_map]>>
    /\ UNCHANGED <<phase, rrVars, arbVars, muxVars, regVars, brVars, decVars, sigVars, bankVars,
                   reg_builder, add_field, sram_bus, sram_old, bank_build, arb_watch>>

NextMap == MapAdd \/ MapAlign

SpecMap == InitMap /\ [][NextMap]_vars

(***************************************************************************)
(* wishbone.SRAM: the acknowledge of the memory's Wishbone interface.      *)
(* sram_bus holds the bus signals of the current cycle; sram_old holds     *)
(* what the last clock edge sampled, and what has been observed of the     *)
(* initiator up to that edge.                                              *)
(***************************************************************************)

\* The edges of one request are counted up to this.
MaxRun == 3

\* The acknowledge registered whenever a request is sampled.
SramAckNextAlways(cyc, stb_i, ack) == cyc /\ stb_i

\* m.d.sync += ack.eq(0); with m.If(cyc & stb & ~ack): m.d.sync += ack.eq(1)
SramAckNext(cyc, stb_i, ack) == cyc /\ stb_i /\ ~ack

\* wrport.en[i] for a selected lane: cyc & stb & we & sel[i].
SramWrEn(cyc, stb_i, we) == cyc /\ stb_i /\ we

\* After reset: no request, no acknowledge.
InitSram ==
    /\ phase = "drive"
    /\ RRAbsent /\ ArbAbsent /\ MuxAbsent /\ RegAbsent /\ BridgeAbsent /\ DecoderAbsent
    /\ SignalsAbsent /\ BankAbsent /\ BuilderAbsent /\ MapAbsent /\ BankBuildAbsent /\ WatchAbsent
    /\ sram_bus = [cyc |-> FALSE, stb |-> FALSE, we |-> FALSE, ack |-> FALSE, wr_en |-> FALSE]
    /\ sram_old = [cyc |-> FALSE, stb |-> FALSE, ack |-> FALSE, run |-> 0, obedient |-> TRUE]

\* The initiator changes one of its outputs for the coming edge.
SramDrive ==
    /\ \/ \E b \in BOOLEAN :
              /\ b # sram_bus.cyc
              /\ sram_bus' = [sram_bus EXCEPT !.cyc = b, !.wr_en = SramWrEn(b, sram_bus.stb, sram_bus.we)]
       \/ \E b \in BOOLEAN :
              /\ b # sram_bus.stb
              /\ sram_bus' = [sram_bus EXCEPT !.stb = b, !.wr_en = SramWrEn(sram_bus.cyc, b, sram_bus.we)]
       \/ \E b \in BOOLEAN :
              /\ b # sram_bus.we
              /\ sram_bus' = [sram_bus EXCEPT !.we = b, !.wr_en = SramWrEn(sram_bus.cyc, sram_bus.stb, b)]
    /\ phase' = "drive"
    /\ UNCHANGED <<sram_old, rrVars, arbVars, muxVars, regVars, brVars, decVars, sigVars, bankVars,
                   reg_builder, add_field, dec_map, dec_call, bank_build, arb_watch>>

\* One clock edge.  A request is cyc & stb sampled at an edge; run counts the
\* edges in a row that sampled one; the initiator stops being obedient when it
\* holds a request from a cycle in which ack was high into the next cycle.
SramTick ==
    LET req == sram_bus.cyc /\ sram_bus.stb
    IN  /\ sram_bus' = [sram_bus EXCEPT !.ack = SramAckNext(sram_bus.cyc, sram_bus.stb, sram_bus.ack)]
        /\ sram_old' = [cyc |-> sram_bus.cyc, stb |-> sram_bus.stb, ack |-> sram_bus.ack,
                        run |-> IF req THEN Min2(sram_old.run + 1, MaxRun) ELSE 0,
                        obedient |-> sram_old.obedient /\
                                    ~(sram_old.ack /\ sram_old.cyc /\ sram_old.stb /\ req)]
        /\ phase' = "edge"
        /\ UNCHANGED <<rrVars, arbVars, muxVars, regVars, brVars, decVars, sigVars, bankVars,
                       reg_builder, add_field, dec_map, dec_call, bank_build, arb_watch>>

NextSram == SramDrive \/ SramTick

SpecSram == InitSram /\ [][NextSram]_vars

(***************************************************************************)
(* csr.dsl.Bank of type "dec" being filled: registers are added inside a   *)
(* with-block, and leaving the block runs _build_dec_from_bank, which      *)
(* makes a Multiplexer per register and adds it to the bank's decoder.     *)
(* The decoder's memory map is dec_map; a window's sub is the number of    *)
(* the Multiplexer it leads to.                                            *)
(***************************************************************************)

\* The bank of BankTestCase: Bank(addr_width=5, data_width=8, alignment=2).
BankDataWidth == 8
BankAlignment == 2

\* The with-block of one bank is entered at most this many times.
MaxBlocks == 2

\* The registers added to the bank: a name, a width, and an alignment of its
\* own or none (0 with has_alignment FALSE).
BankRegs ==
    {r \in [name : {"reg_8_r", "reg_16_rw", "reg_4_w"}, len : {8, 32},
            has_alignment : BOOLEAN, alignment : {0, 3}] :
        r.has_alignment <=> r.alignment # 0}

\* log2_int(n, need_pow2=False): the number of bits needed to count to n.
Log2Ceil(x) == CHOOSE e \in 0 .. 6 : 2 ^ e >= x /\ (e = 0 \/ 2 ^ (e - 1) < x)

\* The address width of the Multiplexer of a register:
\* max(1, log2_int(-(-len(csr_obj) // data_width), need_pow2=False)).
RegMuxAddrWidth(r) == Max2(1, Log2Ceil((r.len + BankDataWidth - 1) \div BankDataWidth))

\* The bank's decoder after __init__: no window.
EmptyDecMap ==
    [features |-> {}, alignment |-> 0, windows |-> <<>>, subs |-> {}, next_addr |-> 0, adds |-> 0]

\* The loop of _build_dec_from_bank from the i-th register on.  b holds
\* _elements (names), _muxes (pairs of a name and the number of its
\* Multiplexer) and made, the register of every Multiplexer created so far;
\* m is the decoder's memory map.
RECURSIVE BuildDecLoop(_, _, _)
BuildDecLoop(b, m, i) ==
    IF i > Len(b.regs) THEN [bank |-> b, map |-> m]
    ELSE LET r == b.regs[i]
         IN  IF r.name \in b.elements THEN BuildDecLoop(b, m, i + 1)
             ELSE LET id == Len(b.made) + 1
                      aligned == MapAlignTo(m, IF r.has_alignment THEN r.alignment
                                               ELSE BankAlignment)
                      added == MapAddWindow([aligned EXCEPT !.subs = @ \cup {id}, !.adds = id],
                                            id, 2 ^ RegMuxAddrWidth(r), 1, FALSE, 0)
                  IN  BuildDecLoop([b EXCEPT !.elements = @ \cup {r.name},
                                             !.muxes = {p \in @ : p[1] # r.name} \cup {<<r.name, id>>},
                                             !.made = Append(@, r.name)],
                                   added.map, i + 1)

\* _build_dec_from_bank: _muxes and _elements are set to empty dicts, then
\* the loop runs over every register of the bank.
BuildDecFromBank(b, m) ==
    BuildDecLoop([b EXCEPT !.elements = {}, !.muxes = {}], m, 1)

\* Bank.__init__: no register, and a build that finds none.
InitBankBuild ==
    /\ phase = "drive"
    /\ RRAbsent /\ ArbAbsent /\ MuxAbsent /\ RegAbsent /\ BridgeAbsent /\ DecoderAbsent
    /\ SignalsAbsent /\ BankAbsent /\ BuilderAbsent /\ SramAbsent /\ WatchAbsent
    /\ bank_build = [inside |-> FALSE, blocks |-> 0, regs |-> <<>>, elements |-> {},
                     muxes |-> {}, made |-> <<>>]
    /\ dec_map = EmptyDecMap
    /\ dec_call = <<>>

\* __enter__
BankEnter ==
    /\ ~bank_build.inside
    /\ bank_build.blocks < MaxBlocks
    /\ bank_build' = [bank_build EXCEPT !.inside = TRUE, !.blocks = @ + 1]
    /\ UNCHANGED <<phase, rrVars, arbVars, muxVars, regVars, brVars, decVars, sigVars, bankVars,
                   reg_builder, add_field, dec_map, dec_call, sram_bus, sram_old, arb_watch>>

\* bank.r += register, inside the with-block, with a name not yet in the bank.
BankAddReg ==
    /\ bank_build.inside
    /\ \E r \in BankRegs :
           /\ \A i \in 1 .. Len(bank_build.regs) : bank_build.regs[i].name # r.name
           /\ bank_build' = [bank_build EXCEPT !.regs = Append(@, r)]
    /\ UNCHANGED <<phase, rrVars, arbVars, muxVars, regVars, brVars, decVars, sigVars, bankVars,
                   reg_builder, add_field, dec_map, dec_call, sram_bus, sram_old, arb_watch>>

\* __exit__: the bank is built again.
BankExit ==
    /\ bank_build.inside
    /\ LET built == BuildDecFromBank(bank_build, dec_map)
       IN  /\ bank_build' = [built.bank EXCEPT !.inside = FALSE]
           /\ dec_map' = built.map
    /\ UNCHANGED <<phase, rrVars, arbVars, muxVars, regVars, brVars, decVars, sigVars, bankVars,
                   reg_builder, add_field, dec_call, sram_bus, sram_old, arb_watch>>

NextBankBuild == BankEnter \/ BankAddReg \/ BankExit

SpecBankBuild == InitBankBuild /\ [][NextBankBuild]_vars

(***************************************************************************)
(* wishbone.bus.Arbiter with a clock that never stops: the initiators      *)
(* raise and drop cyc, and one of them is watched.  arb_watch counts the   *)
(* changes of the grant at the edges at which the watched initiator was    *)
(* sampled with cyc high and without the grant.                            *)
(***************************************************************************)

\* The arbiter has two initiators or more, up to this many.
MaxFairItors == MaxItors + 1

\* The changes of the grant are counted up to this.
MaxChanges == MaxFairItors + 1

\* The initiators hold stb and lock at a level chosen at the start: the two
\* signals reach the grant only through the stb of the scheduler.
InitArbFair ==
    /\ phase = "drive"
    /\ MuxAbsent /\ RegAbsent /\ BridgeAbsent /\ DecoderAbsent /\ SignalsAbsent /\ BankAbsent
    /\ BuilderAbsent /\ MapAbsent /\ SramAbsent /\ BankBuildAbsent
    /\ n \in 2 .. MaxFairItors
    /\ features \in {{}, {"lock"}}
    /\ itor_has_lock = [i \in Requesters(n) |-> "lock" \in features]
    /\ grant = 0
    /\ old_grant = 0
    /\ itor_cyc = [i \in Requesters(n) |-> FALSE]
    /\ \E s \in BOOLEAN : itor_stb = [i \in Requesters(n) |-> s]
    /\ \E l \in BOOLEAN : itor_lock = [i \in Requesters(n) |-> l]
    /\ bus_ack = FALSE /\ bus_err = FALSE /\ bus_rty = FALSE /\ bus_dat_r = 0
    /\ request = itor_cyc
    /\ bus_cyc = FALSE /\ bus_stb = itor_stb[0]
    /\ bus_lock = ArbBusLock(features, itor_has_lock, itor_lock, 0)
    /\ stb = SchedulerStb(features, FALSE, bus_lock, bus_stb)
    /\ itor_ack = [i \in Requesters(n) |-> FALSE]
    /\ itor_err = [i \in Requesters(n) |-> FALSE]
    /\ itor_rty = [i \in Requesters(n) |-> FALSE]
    /\ itor_dat_r = [i \in Requesters(n) |-> 0]
    /\ \E w \in Requesters(n) : arb_watch = [watched |-> w, changes |-> 0]

\* An initiator drives its cyc.
FairDriveCyc ==
    /\ \E i \in Requesters(n) :
          itor_cyc' = [itor_cyc EXCEPT ![i] = ~itor_cyc[i]]
    /\ ArbSettle(grant, itor_cyc', itor_stb, itor_lock, bus_ack, bus_err, bus_rty, bus_dat_r)
    /\ phase' = "drive"
    /\ UNCHANGED <<n, grant, old_grant, features, itor_has_lock,
                   itor_stb, itor_lock, bus_ack, bus_err, bus_rty, bus_dat_r, arb_watch,
                   muxVars, regVars, brVars, decVars, sigVars, bankVars,
                   reg_builder, add_field, dec_map, dec_call, sram_bus, sram_old, bank_build>>

\* One clock edge, as ArbTick.  The count starts again at an edge that samples
\* the watched initiator with cyc low or with the grant.
FairTick ==
    /\ grant' = RoundRobinNext(n, grant, request, stb)
    /\ old_grant' = grant
    /\ ArbSettle(grant', itor_cyc, itor_stb, itor_lock, bus_ack, bus_err, bus_rty, bus_dat_r)
    /\ phase' = "edge"
    /\ arb_watch' = [arb_watch EXCEPT !.changes =
                        IF ~itor_cyc[arb_watch.watched] \/ grant = arb_watch.watched THEN 0
                        ELSE IF grant' # grant THEN Min2(@ + 1, MaxChanges)
                        ELSE @]
    /\ UNCHANGED <<n, features, itor_has_lock, arbIn, muxVars, regVars, brVars, decVars, sigVars,
                   bankVars,
                   reg_builder, add_field, dec_map, dec_call, sram_bus, sram_old, bank_build>>

NextArbFair == FairDriveCyc \/ FairTick

\* The clock keeps running.
SpecArbFair == InitArbFair /\ [][NextArbFair]_vars /\ WF_vars(FairTick)

(***************************************************************************)
(* Claims                                                                  *)
(***************************************************************************)

FirstRequesterAfter(k, g, req) ==
    LET offs == {d \in 1 .. (k - 1) : req[(g + d) % k]}
    IN  IF offs = {}
        THEN g
        ELSE (g + (CHOOSE d \in offs : \A e \in offs : d <= e)) % k

\* C2: at a clock edge where stb is asserted and the request bit of the current
\* grant is low, the new grant is the first requester in the cyclic order after
\* the current grant, and the grant stays when no request bit is set.
C2_NextGrant ==
    (phase = "edge" /\ stb /\ ~request[old_grant])
        => grant = FirstRequesterAfter(n, old_grant, request)

\* An edge at which two requesters other than the granted one request, and the
\* scan wraps around past the last index.
C2_Witness ==
    /\ phase = "edge"
    /\ stb
    /\ ~request[old_grant]
    /\ Cardinality({j \in Requesters(n) : request[j]}) >= 2
    /\ grant < old_grant
    /\ grant = FirstRequesterAfter(n, old_grant, request)

\* C3: at every clock edge at which the shared bus is busy (bus cyc asserted
\* and, with the lock feature, bus lock or bus stb asserted) the grant is
\* unchanged after the edge, and the shared bus still carries the request
\* signals of the same initiator.
C3_GrantRetention ==
    LET cyc  == itor_cyc[old_grant]
        s    == itor_stb[old_grant]
        lock == ArbBusLock(features, itor_has_lock, itor_lock, old_grant)
        busy == cyc /\ ("lock" \in features => (lock \/ s))
    IN  (phase = "edge" /\ busy)
            => /\ grant = old_grant
               /\ bus_cyc = itor_cyc[old_grant]
               /\ bus_stb = itor_stb[old_grant]

\* An edge with the lock feature at which the granted initiator holds lock
\* between two beats (stb low) while another initiator requests with cyc and
\* stb, and the grant stays.
C3_Witness ==
    /\ phase = "edge"
    /\ "lock" \in features
    /\ itor_has_lock[old_grant]
    /\ itor_cyc[old_grant] /\ ~itor_stb[old_grant] /\ itor_lock[old_grant]
    /\ \E j \in Requesters(n) : j # old_grant /\ itor_cyc[j] /\ itor_stb[j]
    /\ grant = old_grant
    /\ ~bus_stb

\* C4: in every cycle ack, err and rty of the target reach only the initiator
\* the grant selects and every other initiator sees 0, so at most one
\* initiator is acknowledged; dat_r reaches every initiator.
C4_ResponseGating ==
    \A i \in DOMAIN itor_ack :
        /\ itor_ack[i] = (bus_ack /\ i = grant)
        /\ itor_err[i] = ("err" \in features /\ bus_err /\ i = grant)
        /\ itor_rty[i] = ("rty" \in features /\ bus_rty /\ i = grant)
        /\ itor_dat_r[i] = bus_dat_r
        /\ \A j \in DOMAIN itor_ack : (itor_ack[i] /\ itor_ack[j]) => i = j

\* The target acknowledges and signals err while the second initiator is
\* granted and the first one requests too: only the second sees ack and err,
\* both see dat_r.
C4_Witness ==
    /\ n >= 2
    /\ grant = 1
    /\ itor_cyc[0] /\ itor_stb[0] /\ itor_cyc[1]
    /\ bus_ack /\ bus_err /\ bus_dat_r = 1
    /\ itor_ack[1] /\ ~itor_ack[0]
    /\ itor_err[1] /\ ~itor_err[0]
    /\ itor_dat_r[0] = 1 /\ itor_dat_r[1] = 1

\* C5: a read of the first chunk latches the whole register value; every chunk
\* read of the sequence it starts returns, one cycle later, the chunk's slice
\* of that latched value, whatever the register has become since; and the
\* register's own read strobe is asserted for a read of the first chunk only.
C5_AtomicRead ==
    /\ elem_r_stb = (mux_r_stb /\ mux_addr = ElemStart)
    /\ (phase = "edge" /\ mux_r_stb /\ mux_addr = ElemStart) => shadow = old_data
    /\ (mux_r_stb /\ mux_addr \in ChunkOffsets /\ snap # <<>>)
           => mux_r_data = snap[mux_addr]

\* A read of the last chunk after the register has changed in that chunk since
\* the first chunk was read: the bus returns the latched chunk, and the
\* register sees no read strobe.
C5_Witness ==
    /\ phase = "edge"
    /\ mux_r_stb /\ mux_addr = MuxChunks - 1
    /\ snap # <<>>
    /\ snap[mux_addr] # data[mux_addr]
    /\ mux_r_data = snap[mux_addr]
    /\ mux_r_data = 1
    /\ ~elem_r_stb

\* C6: a write of a chunk fills the chunk's slice of the write buffer; the
\* register's write strobe is asserted after a write of the last chunk and
\* after no other operation, with the chunks written in the sequence as its
\* data; the register value changes only at the edge at which that strobe is
\* asserted, and then takes the value assembled from the chunks.
C6_AtomicWrite ==
    /\ elem_w_stb = (mux_w_stb /\ mux_addr = ElemEnd - 1)
    /\ (mux_w_stb /\ mux_addr \in ChunkOffsets) => shadow[mux_addr] = mux_w_data
    /\ elem_w_stb =>
           \A k \in DOMAIN written : shadow[k] = written[k]
    /\ (phase = "edge" /\ ~old_w_stb) => data = old_data
    /\ (phase = "edge" /\ old_w_stb) =>
           \A k \in DOMAIN old_written : data[k] = old_written[k]

\* The edge after a sequence that wrote every chunk, with chunks that differ:
\* the register changes to the assembled value.
C6_Witness ==
    /\ phase = "edge"
    /\ old_w_stb
    /\ DOMAIN old_written = ChunkOffsets
    /\ \A k \in ChunkOffsets : data[k] = old_written[k]
    /\ data # old_data
    /\ \E j, k \in ChunkOffsets : data[j] # data[k]
    /\ ~elem_w_stb

\* C7: at every clock edge at which the reset strobe of the register or the
\* reset strobe of its bank is asserted, the register holds its reset value
\* after the edge, whatever the other strobes and their data are.
C7_ResetFirst ==
    (phase = "edge" /\ (rst_stb \/ bank_rst_stb)) => csr_s = ResetValue

\* An edge with the register's own reset strobe and every write strobe
\* asserted, where no data input and not the old value is the reset value.
C7_Witness ==
    /\ phase = "edge"
    /\ rst_stb /\ ~bank_rst_stb
    /\ int_w_stb /\ reg_w_stb
    /\ \A f \in FieldNames : field_int_w_stb[f]
    /\ int_w_data # ResetValue /\ reg_w_data # ResetValue /\ old_s # ResetValue
    /\ csr_s = ResetValue

C9_InternalBeforeBus ==
    (/\ phase = "edge"
     /\ ~(rst_stb \/ bank_rst_stb)
     /\ int_w_stb
     /\ reg_w_stb)
        => csr_s = int_w_data

\* Such an edge for a register with a field the bus may only read, which the
\* internal write changes, and a field the bus may write, on which the bus
\* data differ from the internal-write data.
C9_Witness ==
    /\ phase = "edge"
    /\ ~rst_stb /\ ~bank_rst_stb /\ int_w_stb /\ reg_w_stb
    /\ \E f \in FieldNames :
          /\ field_access[f] = "r"
          /\ \E i \in FieldBits(f) : int_w_data[i] # old_s[i]
    /\ \E g \in FieldNames :
          /\ Writable(field_access[g])
          /\ \E i \in FieldBits(g) : reg_w_data[i] # int_w_data[i]
    /\ csr_s = int_w_data

\* C10: at an edge where a field's internal-write strobe is asserted and
\* neither a reset strobe nor the whole-register internal-write strobe is,
\* every field whose strobe is asserted takes its internal-write data, and
\* every other field takes its slice of the bus write data when the bus write
\* strobe is asserted and the field is writable, and keeps its value otherwise.
C10_PerFieldResolution ==
    (/\ phase = "edge"
     /\ ~(rst_stb \/ bank_rst_stb)
     /\ ~int_w_stb
     /\ \E f \in FieldNames : field_int_w_stb[f])
        => \A f \in FieldNames : \A i \in FieldBits(f) :
              csr_s[i] = IF field_int_w_stb[f] THEN int_w_data[i]
                         ELSE IF reg_w_stb /\ Writable(field_access[f]) THEN reg_w_data[i]
                         ELSE old_s[i]

\* Such an edge with the bus write strobe asserted: one field takes its
\* internal-write data and the other, writable, takes the bus data, which
\* differ from its old value and from the internal-write data.
C10_Witness ==
    /\ phase = "edge"
    /\ ~rst_stb /\ ~bank_rst_stb /\ ~int_w_stb /\ reg_w_stb
    /\ field_int_w_stb["a"] /\ ~field_int_w_stb["b"]
    /\ Writable(field_access["b"])
    /\ \E i \in FieldBits("a") : csr_s[i] = int_w_data[i] /\ csr_s[i] # old_s[i]
                                 /\ int_w_data[i] # reg_w_data[i]
    /\ \E i \in FieldBits("b") : csr_s[i] = reg_w_data[i] /\ csr_s[i] # old_s[i]
                                 /\ reg_w_data[i] # int_w_data[i]

\* C11: at an edge where the bus write strobe is asserted and no reset or
\* internal-write strobe is, every bit of a field the bus may write takes the
\* bit of the bus write data and every bit of a field the bus may not write
\* keeps its value; a register that is not writable does not change.
C11_BusWriteMask ==
    (/\ phase = "edge"
     /\ ~(rst_stb \/ bank_rst_stb)
     /\ ~int_w_stb
     /\ \A f \in FieldNames : ~field_int_w_stb[f]
     /\ reg_w_stb)
        => IF Writable(reg_access)
           THEN \A f \in FieldNames : \A i \in FieldBits(f) :
                   csr_s[i] = IF Writable(field_access[f]) THEN reg_w_data[i] ELSE old_s[i]
           ELSE csr_s = old_s

\* A bus write to a register with a field the bus may only read and a field
\* it may write, with data that differ from the old value on both fields.
C11_Witness ==
    /\ phase = "edge"
    /\ ~rst_stb /\ ~bank_rst_stb /\ ~int_w_stb /\ reg_w_stb
    /\ \A f \in FieldNames : ~field_int_w_stb[f]
    /\ field_access["a"] = "r" /\ field_access["b"] = "w"
    /\ \A i \in FieldBits("a") \cup FieldBits("b") : reg_w_data[i] # old_s[i]
    /\ \A i \in FieldBits("a") : csr_s[i] = old_s[i]
    /\ \A i \in FieldBits("b") : csr_s[i] = reg_w_data[i]

\* C12 as stated: while the read strobe is asserted the read data carries the
\* current value of the register on the bits of readable fields and 0 on the
\* bits of the other fields; without the read strobe, and for a register that
\* is not readable, the read data is 0.
C12_ReadMask ==
    IF Readable(reg_access) /\ reg_r_stb
    THEN \A f \in FieldNames : \A i \in FieldBits(f) :
            reg_r_data[i] = IF Readable(field_access[f]) THEN csr_s[i] ELSE 0
    ELSE \A i \in DOMAIN reg_r_data : reg_r_data[i] = 0

\* C12 amended: the same while no reset strobe of the register or of its bank
\* is asserted.
C12_ReadMaskNoReset ==
    IF Readable(reg_access) /\ reg_r_stb
    THEN ~(rst_stb \/ bank_rst_stb) =>
            \A f \in FieldNames : \A i \in FieldBits(f) :
               reg_r_data[i] = IF Readable(field_access[f]) THEN csr_s[i] ELSE 0
    ELSE \A i \in DOMAIN reg_r_data : reg_r_data[i] = 0

\* A read, with no reset strobe, of a register whose two fields hold 1 on
\* every bit, one readable and one not.
C12_Witness ==
    /\ reg_r_stb /\ ~rst_stb /\ ~bank_rst_stb
    /\ Readable(field_access["a"]) /\ ~Readable(field_access["b"])
    /\ \A i \in FieldBits("a") \cup FieldBits("b") : csr_s[i] = 1
    /\ \A i \in FieldBits("a") : reg_r_data[i] = 1
    /\ \A i \in FieldBits("b") : reg_r_data[i] = 0

\* C13: from the first clock edge that samples cyc and stb asserted with the
\* counter at 0, and while they stay asserted, wb_bus.ack is high after
\* exactly len(sel) + 1 clock edges and at no other edge count, whatever we
\* and sel are.
C13_BridgeLatency ==
    br_n > 0 => (br_ack <=> br_elapsed = br_n + 1)

\* A write with a partial sel on a bridge of more than one lane is acknowledged.
C13_Witness ==
    /\ br_n > 1 /\ br_ack /\ br_we /\ br_sel # {} /\ br_sel # Lanes(br_n)
    /\ br_elapsed = br_n + 1

\* C14: wb_bus.ack is never high in two consecutive cycles, a continuous
\* assertion of cyc and stb that lasts len(sel) + 1 edges has produced exactly
\* one ack pulse, and it never produces a second one.
C14_SingleAck ==
    br_n > 0 =>
        /\ ~(old_ack /\ br_ack)
        /\ br_acks <= 1
        /\ (br_elapsed >= br_n + 1 => br_acks = 1)

\* cyc and stb are still asserted two edges after the ack pulse, and there
\* has been no second pulse.
C14_Witness ==
    /\ br_n > 0 /\ br_elapsed = br_n + 2 /\ ~br_ack /\ ~old_ack /\ br_acks = 1
    /\ br_cyc /\ br_stb /\ br_counter = br_n + 1

\* C15: at most one subordinate has cyc asserted; a subordinate's cyc is
\* asserted if and only if bus.cyc is asserted and bus.adr lies inside its
\* window; no subordinate's cyc is asserted when bus.adr lies in no window.
C15_DecoderSelection ==
    dec_windows # <<>> =>
        /\ Cardinality({i \in Subs : sub_cyc[i]}) <= 1
        /\ \A i \in Subs :
              sub_cyc[i] <=> (dec_cyc /\ InWindow(dec_adr, dec_windows[i]))
        /\ (\A i \in Subs : ~InWindow(dec_adr, dec_windows[i]))
              => \A i \in Subs : ~sub_cyc[i]

\* The second subordinate, behind a window of ratio 2, is the one selected.
C15_Witness ==
    /\ dec_windows # <<>> /\ dec_cyc
    /\ dec_windows[2].ratio = 2 /\ InWindow(dec_adr, dec_windows[2])
    /\ sub_cyc[2] /\ ~sub_cyc[1]

\* C16: for a bus address inside a window of ratio r, the subordinate's adr
\* is the bus address shifted left by log2(r) and truncated to the width of
\* the subordinate's address, which is the offset of the address inside the
\* window, in units of 1/r of a decoder address, truncated likewise; with
\* ratio 1 it is the offset itself.
C16_AddressTranslation ==
    dec_windows # <<>> =>
        \A i \in Subs :
            LET w == dec_windows[i] IN
            InWindow(dec_adr, w) =>
                /\ sub_adr[i] = (dec_adr * w.ratio) % Pow2(w.addr_width)
                /\ sub_adr[i] = ((dec_adr - w.start) * w.ratio) % Pow2(w.addr_width)
                /\ w.ratio = 1 => sub_adr[i] = dec_adr - w.start

\* Windows [0,4) and [4,6) with ratio 1: address 5 selects the second
\* subordinate with local address 1.
C16_Witness ==
    /\ dec_windows # <<>>
    /\ dec_windows[1].start = 0 /\ dec_windows[1].addr_width = 2 /\ dec_windows[1].ratio = 1
    /\ dec_windows[2].start = 4 /\ dec_windows[2].addr_width = 1 /\ dec_windows[2].ratio = 1
    /\ dec_adr = 5 /\ dec_cyc /\ sub_cyc[2] /\ ~sub_cyc[1] /\ sub_adr[2] = 1

\* C17 as stated: bus.dat_r, bus.ack, bus.err and bus.rty equal the outputs of
\* the subordinate selected by bus.adr, and are all 0 when no window matches,
\* whatever the other subordinates drive.
C17_ResponseMux ==
    dec_windows # <<>> =>
        LET sel == DecSelected(dec_windows, dec_adr) IN
        /\ dec_dat_r = (IF sel = 0 THEN 0 ELSE sub_dat_r[sel])
        /\ dec_ack = (sel # 0 /\ sub_ack[sel])
        /\ dec_err = (sel # 0 /\ sub_err[sel])
        /\ dec_rty = (sel # 0 /\ sub_rty[sel])

\* C17, amended: bus.dat_r equals the dat_r of the selected subordinate and is
\* 0 when no window matches, whatever the other subordinates drive; bus.ack,
\* bus.err and bus.rty are each the OR of that output over all subordinates,
\* so they equal the selected subordinate's outputs, and are 0 when no window
\* matches, while the subordinates that are not selected drive them low.
C17_ResponseFanin ==
    dec_windows # <<>> =>
        LET sel == DecSelected(dec_windows, dec_adr)
            OthersLow(out) == \A j \in Subs \ {sel} : ~out[j]
        IN
        /\ dec_dat_r = (IF sel = 0 THEN 0 ELSE sub_dat_r[sel])
        /\ dec_ack = (\E i \in Subs : sub_ack[i])
        /\ dec_err = (\E i \in Subs : sub_err[i])
        /\ dec_rty = (\E i \in Subs : sub_rty[i])
        /\ OthersLow(sub_ack) => dec_ack = (sel # 0 /\ sub_ack[sel])
        /\ OthersLow(sub_err) => dec_err = (sel # 0 /\ sub_err[sel])
        /\ OthersLow(sub_rty) => dec_rty = (sel # 0 /\ sub_rty[sel])

\* The first subordinate is selected and idle while the second one drives its
\* dat_r, ack and err: dat_r stays 0, ack and err get through.
C17_Witness ==
    /\ dec_windows # <<>> /\ dec_cyc /\ DecSelected(dec_windows, dec_adr) = 1
    /\ sub_dat_r[1] = 0 /\ ~sub_ack[1]
    /\ sub_dat_r[2] = 1 /\ sub_ack[2] /\ sub_err[2]
    /\ dec_dat_r = 0 /\ dec_ack /\ dec_err

\* C18: with the lock feature and two initiators that both assert cyc, while
\* the granted initiator asserts lock or stb the other one never receives ack;
\* at a clock edge at which the granted initiator has lock and stb both low,
\* though it still asserts cyc, the grant passes to the other initiator, which
\* then receives the bus ack while the first one no longer does.
C18_HandOverOnUnlock ==
    (/\ phase = "edge" /\ n = 2 /\ "lock" \in features
     /\ \A i \in Requesters(n) : itor_has_lock[i] /\ itor_cyc[i])
        => LET other == 1 - old_grant IN
           IF itor_lock[old_grant] \/ itor_stb[old_grant]
           THEN grant = old_grant /\ ~itor_ack[other]
           ELSE /\ grant = other
                /\ itor_ack[other] = bus_ack
                /\ ~itor_ack[old_grant]

\* C19: with N = 3 and all three request bits asserted, every clock edge with
\* the advance strobe asserted moves the grant one position: 0, 1, 2, 0, ...
C19_Rotation ==
    (/\ phase = "edge" /\ n = 3 /\ stb
     /\ \A i \in Requesters(n) : request[i])
        => grant = (old_grant + 1) % n

\* C20: the grant is always in [0, N); it changes only at a clock edge at
\* which stb is asserted, so at every clock edge with stb low it keeps its
\* value whatever the request vector is.
C20_GrantState ==
    /\ [](n > 0 => grant \in Requesters(n))
    /\ [][grant' # grant => (phase' = "edge" /\ stb)]_vars

\* An edge with stb low has kept a grant other than the initial one, although
\* the granted request bit is low and another one is asserted.
C20_Witness ==
    /\ phase = "edge" /\ n > 1 /\ ~stb
    /\ grant # 0 /\ grant = old_grant
    /\ ~request[grant] /\ \E i \in Requesters(n) : request[i]

\* C21: the shared bus's adr, dat_w, we, stb and cyc equal those of the
\* granted initiator; each sel bit of the granted initiator appears ratio
\* times on the shared sel; lock, cti and bte carry the granted initiator's
\* values, or 1, CLASSIC and LINEAR when it lacks the signal; the signals of
\* the other initiator do not appear.
C21_RequestForwarding ==
    itor_adr # <<>> =>
        LET g == grant
            has(name) == name \in itor_features[g]
        IN
        /\ bus_adr = itor_adr[g] /\ bus_dat_w = itor_dat_w[g] /\ bus_we = itor_we[g]
        /\ bus_stb = itor_stb[g] /\ bus_cyc = itor_cyc[g]
        /\ \A b \in BusSelBits : b \in bus_sel <=> (b \div itor_ratio[g]) \in itor_sel[g]
        /\ Cardinality(bus_sel) = itor_ratio[g] * Cardinality(itor_sel[g])
        /\ bus_lock = (IF has("lock") THEN itor_lock[g] ELSE TRUE)
        /\ bus_cti = (IF has("cti") THEN itor_cti[g] ELSE "CLASSIC")
        /\ bus_bte = (IF has("bte") THEN itor_bte[g] ELSE "LINEAR")

\* The second initiator is granted, its one sel bit fills the shared sel, and
\* the first initiator drives other values on every signal it has.
C21_Witness ==
    /\ itor_adr # <<>> /\ grant = 1
    /\ itor_sel[1] = {0} /\ bus_sel = BusSelBits /\ itor_sel[0] = {}
    /\ itor_cyc[1] /\ ~itor_cyc[0] /\ itor_stb[1] /\ ~itor_stb[0]
    /\ itor_adr[1] = 1 /\ itor_adr[0] = 0 /\ itor_dat_w[1] = 0 /\ itor_dat_w[0] = 1
    /\ itor_we[1] /\ ~itor_we[0]
    /\ ~itor_lock[1] /\ ~bus_lock
    /\ bus_cti = "INCR_BURST" /\ bus_bte = "WRAP_4"

\* C22: every initiator that has a stall signal and is not the granted one
\* sees stall = 1; the granted one sees the shared bus's stall or, when the
\* arbiter has no stall feature, the negation of the shared bus's ack.
C22_Stall ==
    (itor_stall # <<>> /\ itor_adr = <<>>) =>
        \A i \in Requesters(n) :
            "stall" \in itor_features[i] =>
                IF i # grant THEN itor_stall[i]
                ELSE IF "stall" \in features THEN itor_stall[i] = bus_stall
                ELSE itor_stall[i] = ~bus_ack

\* An arbiter without the stall feature: the granted initiator, not the first
\* one, sees stall low under the bus ack while another one sees it high.
C22_Witness ==
    /\ itor_stall # <<>> /\ itor_adr = <<>> /\ n > 1
    /\ "stall" \notin features /\ bus_ack
    /\ grant # 0 /\ "stall" \in itor_features[grant] /\ ~itor_stall[grant]
    /\ "stall" \in itor_features[0] /\ itor_stall[0]

\* C23: after every clock edge that samples cyc & stb low the counter is 0,
\* whatever it was, and wb_bus.ack is low; the first edge of the transaction
\* that follows starts from slice 0, and an ack is only ever raised len(sel) + 1
\* edges after cyc & stb was last sampled low.
C23_Abort ==
    br_n > 0 =>
        /\ (phase = "edge" /\ ~(br_cyc /\ br_stb)) =>
               (br_counter = 0 /\ ~br_ack /\ br_elapsed = 0)
        /\ (phase = "edge" /\ br_cyc /\ br_stb /\ br_elapsed = 1) =>
               (old_counter = 0 /\ br_counter = 1 /\ ~br_ack)
        /\ br_ack => br_elapsed = br_n + 1

\* A request is withdrawn after some but not all slices were accessed.
C23_Witness ==
    /\ br_n > 1 /\ phase = "edge" /\ ~(br_cyc /\ br_stb)
    /\ old_counter \in 1 .. (br_n - 1) /\ br_counter = 0 /\ ~br_ack

\* C24: in slice state k (cyc & stb, counter = k < len(sel)) csr_bus.addr is
\* wb_bus.adr * len(sel) + k, csr_bus.w_data is slice k of wb_bus.dat_w,
\* csr_bus.r_stb is sel[k] & ~we and csr_bus.w_stb is sel[k] & we; in every
\* other state both strobes are 0; the two strobes are never 1 together.
C24_SliceAccess ==
    br_n > 0 =>
        LET slice == br_cyc /\ br_stb /\ br_counter < br_n IN
        /\ slice =>
               /\ br_csr_addr = br_adr * br_n + br_counter
               /\ br_csr_w_data = br_dat_w[br_counter]
               /\ br_r_stb <=> (br_counter \in br_sel /\ ~br_we)
               /\ br_w_stb <=> (br_counter \in br_sel /\ br_we)
        /\ ~slice => (~br_r_stb /\ ~br_w_stb)
        /\ ~(br_r_stb /\ br_w_stb)

\* The second slice of a wide write is stored at an odd CSR address, while the
\* first lane is deselected.
C24_Witness ==
    /\ br_n > 1 /\ br_cyc /\ br_stb /\ br_we /\ br_counter = 1
    /\ br_sel = {1} /\ br_adr = 1 /\ br_dat_w[1] = 1 /\ br_dat_w[0] = 0
    /\ br_w_stb /\ ~br_r_stb /\ br_csr_addr = br_n + 1 /\ br_csr_w_data = 1

C27_Hold ==
    (/\ phase = "edge"
     /\ ~rst_stb /\ ~bank_rst_stb /\ ~int_w_stb /\ ~reg_w_stb
     /\ \A f \in FieldNames : ~field_int_w_stb[f]) => csr_s = old_s

\* A written register keeps its value at an edge with every strobe low, while
\* both data inputs carry other values.
C27_Witness ==
    /\ phase = "edge"
    /\ ~rst_stb /\ ~bank_rst_stb /\ ~int_w_stb /\ ~reg_w_stb
    /\ \A f \in FieldNames : ~field_int_w_stb[f]
    /\ Writable(reg_access) /\ \A f \in FieldNames : Writable(field_access[f])
    /\ csr_s = old_s /\ csr_s # ResetValue
    /\ \A i \in RegBits : reg_w_data[i] # csr_s[i] /\ int_w_data[i] # csr_s[i]

\* C28: a reset of the clock domain does not touch the register: after an edge
\* with no reset strobe and no write strobe asserted the register holds the
\* value it had, whether the domain's reset was high or low, and after an edge
\* with the reset strobe of the register or of its bank asserted it holds its
\* reset value.
C28_DomainReset ==
    phase = "edge" =>
        /\ (/\ ~rst_stb /\ ~bank_rst_stb /\ ~int_w_stb /\ ~reg_w_stb
            /\ \A f \in FieldNames : ~field_int_w_stb[f]) => csr_s = old_s
        /\ RegReset(rst_stb, bank_rst_stb) => csr_s = ResetValue

\* A written register keeps a value other than its reset value over an edge
\* with the domain's reset high.
C28_Witness ==
    /\ phase = "edge" /\ dom_rst
    /\ ~rst_stb /\ ~bank_rst_stb /\ ~int_w_stb /\ ~reg_w_stb
    /\ \A f \in FieldNames : ~field_int_w_stb[f]
    /\ csr_s = old_s /\ csr_s # ResetValue

\* C29: at an edge with the reset strobe of the bank asserted every register
\* of the bank takes its reset value, whatever write strobes are asserted; at an
\* edge with a register's own reset strobe asserted that register takes its
\* reset value, and a register with neither reset strobe nor any write strobe
\* of its own keeps its value, whatever the other register's strobes are.
C29_ResetScope ==
    [][phase' = "edge" =>
          /\ bank_rst_stb => (csr_s' = ResetValue /\ reg2_s' = ResetValue)
          /\ rst_stb => csr_s' = ResetValue
          /\ reg2_rst_stb => reg2_s' = ResetValue
          /\ (/\ ~bank_rst_stb /\ ~rst_stb /\ ~int_w_stb /\ ~reg_w_stb
              /\ \A f \in FieldNames : ~field_int_w_stb[f]) => csr_s' = csr_s
          /\ (~bank_rst_stb /\ ~reg2_rst_stb /\ ~reg2_int_w_stb /\ ~reg2_w_stb)
                 => reg2_s' = reg2_s]_vars

\* The first register was reset by its own strobe, over an internal write,
\* while the second register keeps a value other than its reset value.
C29_Witness ==
    /\ phase = "edge" /\ reg2_s # <<>>
    /\ rst_stb /\ int_w_stb /\ ~bank_rst_stb
    /\ ~reg2_rst_stb /\ ~reg2_int_w_stb /\ ~reg2_w_stb
    /\ csr_s = ResetValue /\ reg2_s # ResetValue

C39_ReadDuringReset ==
    /\ (reg_r_stb /\ RegReset(rst_stb, bank_rst_stb) /\ Readable(reg_access)) =>
           reg_r_data = [i \in RegBits |->
                            IF RwBitmask(field_access, "r")[i] = 1 THEN ResetValue[i] ELSE 0]
    /\ phase = "drive" => csr_s = old_s

\* Before the edge the register holds a value whose readable bits differ from
\* the reset value, and the read data already shows the reset value.
C39_Witness ==
    /\ phase = "drive" /\ reg_r_stb /\ RegReset(rst_stb, bank_rst_stb)
    /\ Readable(reg_access) /\ \A f \in FieldNames : Readable(field_access[f])
    /\ csr_s = ZeroVector /\ reg_r_data = ResetValue /\ ResetValue # ZeroVector

\* The [startbit, endbit] ranges of two attached fields share a bit.
RangesIntersect(g, h) == ~(g.endbit < h.startbit \/ h.endbit < g.startbit)

\* The range that the field of the last _add_field call asked for intersects
\* the range of a field attached before the call.
CallIntersects ==
    LET c == add_field[1]
        asked == [startbit |-> ArgStartbit(c.before, c.field),
                  endbit |-> ArgEndbit(c.before, c.field)]
    IN  \E g \in c.before.fields : RangesIntersect(asked, g)

\* C31: the bit ranges of every two distinct attached fields of a register are
\* disjoint, and an _add_field call with a field whose range intersects the
\* range of an attached field raises and leaves the fields as they were.
C31_FieldsDisjoint ==
    /\ \A g, h \in reg_builder.fields : g # h => ~RangesIntersect(g, h)
    /\ (add_field # <<>> /\ CallIntersects) =>
           /\ add_field[1].raised # ""
           /\ reg_builder.fields = add_field[1].before.fields

\* A two-bit field was refused for sharing one bit with an attached field of
\* another name.
C31_Witness ==
    /\ add_field # <<>>
    /\ add_field[1].raised = "AttributeError: occupied"
    /\ add_field[1].field.width = 2
    /\ \E g \in reg_builder.fields :
           g.startbit = g.endbit /\ g.startbit = ArgEndbit(add_field[1].before, add_field[1].field)

\* C32: an _add_field call that raises leaves the register as it was before
\* the call: the same fields, the same len(), and the same _bitcount, which is
\* where the next field without a start bit is placed.
C32_FailedAttachAtomic ==
    (add_field # <<>> /\ add_field[1].raised # "") =>
        /\ reg_builder.fields = add_field[1].before.fields
        /\ BuilderLen(reg_builder) = BuilderLen(add_field[1].before)
        /\ reg_builder.bitcount = add_field[1].before.bitcount

\* The access mode facc permits a read or a write that racc does not.
Broader(facc, racc) ==
    \/ Readable(facc) /\ ~Readable(racc)
    \/ Writable(facc) /\ ~Writable(racc)

\* C33: no attached field has an access mode broader than its register's; a
\* field attached without a declared access has the register's access mode;
\* and an _add_field call with a declared access broader than the register's
\* raises.
C33_FieldAccess ==
    /\ \A g \in reg_builder.fields : ~Broader(g.access, reg_builder.access)
    /\ add_field # <<>> =>
           LET c == add_field[1]
           IN  /\ (c.raised = "" /\ c.field.access = "none") =>
                      \E g \in reg_builder.fields :
                          g.name = c.field.name /\ g.access = reg_builder.access
               /\ (c.field.access # "none" /\ Broader(c.field.access, reg_builder.access)) =>
                      c.raised # ""

\* A write-only register that holds a field attached without a declared
\* access has refused a field declared read-write.
C33_Witness ==
    /\ add_field # <<>>
    /\ reg_builder.access = "w"
    /\ add_field[1].raised = "AttributeError: access"
    /\ add_field[1].field.access = "rw"
    /\ \E g \in reg_builder.fields : g.access = "w"

\* The subordinate bus of the last add() call is one that the decoder cannot
\* serve: finer-grained than the subordinate, of another data width under dense
\* translation, of a data width other than its granularity under sparse
\* translation, or with an optional output that the decoder has no input for.
CallInvalid ==
    LET d == dec_call[1]
    IN  \/ d.sub.granularity > DecGranularity
        \/ ~d.sparse /\ d.sub.data_width # DecDataWidth
        \/ d.sparse /\ d.sub.data_width # d.sub.granularity
        \/ \E o \in {"err", "rty", "stall"} : o \in d.sub.features /\ o \notin d.before.features

\* C34: add() raises and leaves the windows as they were when the subordinate
\* bus is one the decoder cannot serve; any other subordinate bus, one without
\* the optional outputs of the decoder included, passes the checks of add():
\* its window is added unless it would overlap another one.
C34_AddValidation ==
    (dec_call # <<>> /\ dec_call[1].op = "add") =>
        /\ CallInvalid =>
               /\ dec_call[1].raised \notin {"", "ValueError: overlap"}
               /\ dec_map.windows = dec_call[1].before.windows
        /\ ~CallInvalid =>
               /\ dec_call[1].raised \in {"", "ValueError: overlap"}
               /\ dec_call[1].raised = "" =>
                      /\ Len(dec_map.windows) = Len(dec_call[1].before.windows) + 1
                      /\ dec_map.windows[Len(dec_map.windows)].sub = dec_map.adds

\* A decoder without optional inputs that holds the window of a subordinate
\* has refused a subordinate with an err output.
C34_Witness ==
    /\ dec_call # <<>> /\ dec_call[1].op = "add"
    /\ dec_call[1].raised = "ValueError: optional output"
    /\ dec_call[1].sub.features = {"err"}
    /\ dec_map.features = {}
    /\ Len(dec_map.windows) = 1

\* The address a is the first multiple of k at or after the address from.
FirstAligned(a, k, from) == a % k = 0 /\ from <= a /\ a < from + k

\* C35: add() without an explicit address returns (start, end, ratio) of the
\* window it adds, which starts at the first address aligned to the decoder's
\* alignment at or after the implicit next address, itself never below the end
\* of the window added before; align_to(n) returns the first multiple of 2^n at
\* or after the implicit next address, makes it the implicit next address and
\* adds no window.
C35_ImplicitPlacement ==
    dec_call # <<>> =>
        LET d == dec_call[1]
            last == dec_map.windows[Len(dec_map.windows)]
        IN  /\ (d.op = "add" /\ ~d.has_addr /\ d.raised = "") =>
                   /\ d.ret = <<last.start, last.end, last.ratio>>
                   /\ last.end - last.start = WindowSize(d.sub, d.sparse)
                   /\ FirstAligned(last.start, 2 ^ dec_map.alignment, d.before.next_addr)
                   /\ d.before.windows # <<>> =>
                          d.before.windows[Len(d.before.windows)].end <= last.start
            /\ d.op = "align_to" =>
                   /\ d.raised = ""
                   /\ d.ret = <<dec_map.next_addr>>
                   /\ FirstAligned(dec_map.next_addr, 2 ^ d.alignment, d.before.next_addr)
                   /\ dec_map.windows = d.before.windows

\* As in test_add_align_to: a window added at 0, the implicit address aligned
\* to four times the size of the window, and a second window added there.
C35_Witness ==
    /\ dec_call # <<>> /\ dec_call[1].op = "add" /\ ~dec_call[1].has_addr
    /\ Len(dec_map.windows) = 2
    /\ dec_map.windows[1].start = 0
    /\ dec_map.windows[2].start = 4 * dec_map.windows[1].end
    /\ dec_call[1].ret = <<4 * dec_map.windows[1].end, 5 * dec_map.windows[1].end, 1>>

\* The last add() call gave an explicit address at which the window of its
\* subordinate shares an address with a window of the decoder.
CallOverlaps ==
    LET d == dec_call[1]
        asked == [start |-> d.addr, end |-> d.addr + WindowSize(d.sub, d.sparse)]
    IN  /\ d.op = "add" /\ d.has_addr /\ d.sub.granularity <= DecGranularity
        /\ \E i \in 1 .. Len(d.before.windows) :
               ~(asked.end <= d.before.windows[i].start \/ d.before.windows[i].end <= asked.start)

\* C36: the windows of a decoder are pairwise disjoint; an add() with an
\* explicit address at which the window would overlap one of the decoder
\* raises and leaves the windows as they were; and no call changes a window
\* added before.
C36_WindowsDisjoint ==
    /\ \A i, j \in 1 .. Len(dec_map.windows) :
           i # j => \/ dec_map.windows[i].end <= dec_map.windows[j].start
                    \/ dec_map.windows[j].end <= dec_map.windows[i].start
    /\ dec_call # <<>> =>
           /\ CallOverlaps =>
                  /\ dec_call[1].raised # ""
                  /\ dec_map.windows = dec_call[1].before.windows
           /\ Len(dec_call[1].before.windows) <= Len(dec_map.windows)
           /\ \A i \in 1 .. Len(dec_call[1].before.windows) :
                  dec_map.windows[i] = dec_call[1].before.windows[i]

\* An add() at an explicit address inside the only window of the decoder, and
\* above its start, was refused.
C36_Witness ==
    /\ dec_call # <<>> /\ dec_call[1].op = "add" /\ dec_call[1].has_addr
    /\ AddRaises(dec_map.features, dec_call[1].sub, dec_call[1].sparse) = ""
    /\ dec_call[1].raised # ""
    /\ Len(dec_map.windows) = 1
    /\ dec_map.windows[1].start < dec_call[1].addr
    /\ dec_call[1].addr < dec_map.windows[1].end

\* C38: ack is high in a cycle exactly when the edge before it sampled cyc and
\* stb high and ack low; so ack is not high in two cycles in a row, and is not
\* high unless the edge before sampled a request; and for an initiator that
\* never holds a request from a cycle with ack high into the next cycle, no
\* request lasts more than two edges and ack is high exactly in the cycle after
\* the first edge of each request.
C38_AckHandshake ==
    /\ sram_bus.ack <=> (sram_old.cyc /\ sram_old.stb /\ ~sram_old.ack)
    /\ ~(sram_bus.ack /\ sram_old.ack)
    /\ sram_bus.ack => (sram_old.cyc /\ sram_old.stb)
    /\ sram_old.obedient =>
           /\ sram_old.run <= 2
           /\ sram_bus.ack <=> sram_old.run = 1

\* The second edge of a request that the initiator still held while it saw
\* ack: the acknowledge is low again.
C38_Witness ==
    /\ phase = "edge"
    /\ sram_old.obedient /\ sram_old.run = 2
    /\ sram_old.ack /\ ~sram_bus.ack
    /\ sram_bus.cyc /\ sram_bus.stb

\* The windows of the decoder of a new bank whose registers were all added in
\* one with-block.
OneBlockWindows(regs) ==
    BuildDecFromBank([inside |-> TRUE, blocks |-> 1, regs |-> regs, elements |-> {},
                      muxes |-> {}, made |-> <<>>], EmptyDecMap).map.windows

\* The windows of the decoder that lead to a Multiplexer made for the register.
RegWindows(name) ==
    {i \in 1 .. Len(dec_map.windows) : bank_build.made[dec_map.windows[i].sub] = name}

\* C40: outside the with-block every register of the bank has one window in
\* the bank's decoder, and the windows are those of a bank that got the same
\* registers in a single with-block, however many with-blocks were used.
C40_BuildIdempotent ==
    ~bank_build.inside =>
        /\ \A i \in 1 .. Len(bank_build.regs) :
               Cardinality(RegWindows(bank_build.regs[i].name)) = 1
        /\ [i \in 1 .. Len(dec_map.windows) |->
                [start |-> dec_map.windows[i].start, end |-> dec_map.windows[i].end]]
               = [i \in 1 .. Len(OneBlockWindows(bank_build.regs)) |->
                     [start |-> OneBlockWindows(bank_build.regs)[i].start,
                      end |-> OneBlockWindows(bank_build.regs)[i].end]]

\* Every initiator that holds the grant is, at some later clock edge at which
\* it still holds it, sampled with cyc low.
HoldersRelease ==
    \A i \in 0 .. (MaxFairItors - 1) :
        (i < n /\ grant = i) ~> (phase = "edge" /\ old_grant = i /\ ~itor_cyc[i])

\* C37: if every initiator that holds the grant is eventually sampled with cyc
\* low, the watched initiator does not keep cyc asserted for ever without
\* being granted the bus; and while it waits with cyc sampled high, the grant
\* changes at most n - 1 times, the change that grants it included.
C37_NoStarvation ==
    /\ [](arb_watch.changes <= n - 1)
    /\ HoldersRelease => []<>(~itor_cyc[arb_watch.watched] \/ grant = arb_watch.watched)

\* With three initiators the last one was granted by the second change of the
\* grant since it raised cyc.
C37_Witness ==
    /\ n = 3 /\ arb_watch.watched = 2
    /\ phase = "edge" /\ grant = 2 /\ old_grant = 1
    /\ arb_watch.changes = 2
====
